------------------------------ MODULE MCHexImage ------------------------------
(* A few records that overlap, leave gaps, run past the end of each space   *)
(* and end on it, have odd lengths and odd addresses; every line also with  *)
(* each of its pairs changed to a few values, cut short anywhere, with one  *)
(* character of its address no hex digit, and with a negative count.        *)
EXTENDS HexImage
MCGarbage == {7, 9}
Rec(t, a, d) == [dataLen |-> Len(d), address |-> a, type |-> t, data |-> d]
MCRecords ==
  {Rec(0, 0, <<1, 2>>), Rec(0, 0, <<3, 4, 5, 6>>), Rec(0, 2, <<1, 2>>), Rec(0, 2, <<3, 4, 5, 6>>),
   Rec(0, 4, <<5, 255>>), Rec(0, 5, <<1, 2>>), Rec(0, 0, <<>>), Rec(0, 1, <<255, 2>>),
   Rec(0, 0, <<1, 2, 3>>), Rec(0, 3, <<4>>), Rec(0, 0, <<1, 254>>), Rec(0, 7142, <<1, 2>>),
   Rec(1, 0, <<>>), Rec(3, 0, <<0, 0, 1, 0>>),
   Rec(4, 0, <<0, 0>>), Rec(4, 0, <<0, 48>>), Rec(4, 0, <<0, 240>>), Rec(4, 0, <<0, 32>>)}
MCText(pairs) ==
  [count |-> pairs[1], address |-> 256 * pairs[2] + pairs[3], pairs |-> pairs, stray |-> 0]
MCLine(r, text, damage) == [meant |-> r, text |-> text, damage |-> damage]
MCValues == {0, 1, 2, 4, 250, 255}
MCChanged(r) ==
  LET pairs == LineFor(r) IN
  {MCLine(r, MCText([pairs EXCEPT ![c[1]] = c[2]]), IF c[1] = 1 THEN "other" ELSE "byte") :
     c \in {d \in (DOMAIN pairs) \X MCValues : pairs[d[1]] # d[2]}}
MCCut(r) ==
  {MCLine(r, [MCText(LineFor(r)) EXCEPT !.pairs = SubSeq(@, 1, n)], "cut") :
     n \in 0 .. Len(LineFor(r)) - 1}
MCNoDigit(r) ==
  {MCLine(r, [MCText(LineFor(r)) EXCEPT !.address = @ \div n], "other") : n \in {16, 256, 4096, 65536}}
MCNegative(r) ==
  {MCLine(r, [MCText([LineFor(r) EXCEPT ![1] = 256 - n]) EXCEPT !.count = -n, !.stray = s], "other") :
     n \in 1 .. 6, s \in {0, 4}}
MCLines ==
  {MCLine(r, MCText(LineFor(r)), "none") : r \in MCRecords}
    \cup UNION {MCChanged(r) \cup MCCut(r) \cup MCNoDigit(r) \cup MCNegative(r) : r \in MCRecords}
===============================================================================
