----------------------------- MODULE MCPromotion -----------------------------
(***************************************************************************)
(* Model checking of Promotion on functions made of a for loop, of a loop  *)
(* that is left at once and of two ifs, with two scalars 1 and 2 and the   *)
(* array 3, which are read, written, computed from one another and copied, *)
(* and on one of them that copies one variable to the other.               *)
(***************************************************************************)
EXTENDS Promotion

load(a) == [op |-> "load", a |-> a]
store(a) == [op |-> "store", a |-> a]
call == [op |-> "call", a |-> 0]

Read(a) == <<call, store(a)>>                \* a = getint();
Write(a) == <<load(a), call>>                \* putint(a);
Copy(a, b) == <<load(b), store(a)>>          \* a = b;
Update(a, b) == <<load(b), call, store(a)>>  \* a = f(b);

(* Each instruction uses the value of the one before it; call takes no     *)
(* value at the start of a block.                                          *)
Block(b, s) ==
  [i \in DOMAIN s |-> [op |-> s[i].op, a |-> s[i].a,
                       arg |-> IF i = 1 \/ s[i].op = "load" \/ s[i - 1].op = "store" THEN Null
                               ELSE Ins(b, i - 1)]]

Function(graph, code) == [succ |-> graph, code |-> [b \in DOMAIN code |-> Block(b, code[b])]]

For == <<{2}, {3, 5}, {4}, {2}, {}>>         \* entry cond body iter exit
ForBreak == <<{2}, {3}, {5}, {2}, {}>>       \* for (..; ; ..) { .. break; }
TwoIfs == <<{2, 3}, {3}, {4, 5}, {5}, {}>>   \* entry then after then after

Statements ==
  {Read(1), Write(1), Update(1, 1), Update(1, 2), Update(2, 1),
   Copy(1, 1), Copy(1, 2), Copy(2, 1), Copy(1, 3), Copy(3, 1)}
Entries == {Read(1), Read(1) \o Read(2)}

MCPrograms ==
  {Function(graph, <<e, s, t, u, Write(1) \o Write(2)>>) :
     graph \in {For, ForBreak, TwoIfs}, e \in Entries, s \in {<< >>, Write(1)},
     t \in Statements, u \in Statements}

(* a = ..; b = ..; for (..; ..; ..) { a = b; } *)
MCCopy ==
  {Function(For, <<Read(1) \o Read(2), << >>, Copy(1, 2), << >>, Write(1) \o Write(2)>>)}

MCAllocas == {1, 2, 3}
MCScalars == {1, 2}
=============================================================================
