------------------------------ MODULE MCLocalOpts ------------------------------
(***************************************************************************)
(* Model checking of LocalOpts with integers of three bits, a scalar and   *)
(* an array of two elements, on four families of functions.                *)
(***************************************************************************)
EXTENDS LocalOpts

In(b, op, args, to) == [op |-> op, args |-> args, block |-> b, to |-> to]
I(op, a, b) == In(1, op, <<a, b>>, << >>)
Load(p) == In(1, "load", <<p>>, << >>)
Gep(i) == In(1, "gep", <<i>>, << >>)
Store(p, v) == In(1, "store", <<p, v>>, << >>)
Call(v) == In(1, "call", <<v>>, << >>)
Ret == In(1, "ret", << >>, << >>)
Block(b, s) == [i \in DOMAIN s |-> [s[i] EXCEPT !.block = b]]

Least == Const(-4)

(* A computation on the scalar and constants, and one on its result. *)
Chains ==
  {<<Load(Global), I(p, a[1], a[2]), I(q, b[1], b[2]), Call(Ref(3)), Ret>> :
     p \in Arithmetic,
     a \in ({Ref(1)} \X {Const(-1), Const(0), Const(1), Ref(1)})
          \cup {<<Const(0), Ref(1)>>, <<Const(1), Ref(1)>>, <<Least, Const(-1)>>},
     q \in Arithmetic \cup {"slt"},
     b \in ({Ref(2)} \X {Const(0), Const(-1), Ref(1), Ref(2)})
          \cup {<<Const(0), Ref(2)>>, <<Least, Ref(2)>>}}

(* Two computations on the same two values, and one on their results. *)
Pairs ==
  {<<Load(Global), Gep(Const(0)), Load(Ref(2)),
     I(p, a[1], a[2]), I(q, b[1], b[2]), I("sub", Ref(4), Ref(5)), Call(Ref(6)), Ret>> :
     p \in {"add", "sub", "mul", "sle"}, q \in {"add", "sub", "mul", "sge"},
     a \in {Ref(1)} \X {Ref(1), Ref(3)}, b \in {Ref(1), Ref(3)} \X {Ref(1), Ref(3)}}

(* Loads with two other accesses between them, of addresses that may be    *)
(* the same.                                                               *)
Between == {Load(Global), Load(Ref(2)), Store(Global, Ref(3)), Store(Ref(2), Ref(1)), Call(Const(1))}
Accesses ==
  {<<Load(Global), Gep(Const(0)), Load(Ref(2)), x, y, Gep(Ref(1)), z, Load(p),
     I("sub", Ref(8), Ref(q)), Call(Ref(9)), Ret>> :
     x \in Between, y \in Between, z \in {Load(Ref(6)), Store(Ref(6), Const(1))},
     p \in {Global, Ref(2), Ref(6)}, q \in {1, 3}}

(* if (cond) { x; y } and a phi of the scalar and a value of the branch.   *)
Branches ==
  {<<Load(Global), I("slt", a, b), I("xor", Ref(2), Const(1)), In(1, "br", <<Ref(c)>>, <<2, 3>>)>>
     \o Block(2, <<x, I("mul", Ref(1), d), In(2, "br", << >>, <<3>>)>>)
     \o Block(3, <<In(3, "phi", <<Ref(1), v>>, <<1, 2>>), I("mul", Ref(1), Const(-1)),
                   Load(Global), I("add", Ref(8), Ref(9)), I("sub", Ref(11), Ref(10)),
                   Call(Ref(12)), Ret>>) :
     a \in {Ref(1), Const(-1)}, b \in {Const(0), Ref(1)}, c \in {2, 3},
     x \in {Load(Global), Store(Global, Const(1)), Call(Ref(1))},
     d \in {Const(-1), Const(1), Ref(1)}, v \in {Ref(6), Const(1)}}

MCPrograms == Chains \cup Pairs \cup Accesses \cup Branches

MCMemories ==
  {[c \in 0..2 |-> IF c = 0 THEN g ELSE IF c = 1 THEN e ELSE 2] : g \in -4..3, e \in {-4, 1}}
=============================================================================
