------------------------------- MODULE MCSession -------------------------------
(* A small session for TLC: its refs, and the events a craps seed can hold. *)
EXTENDS SessionProperties

CONSTANTS p1, p2, p3, b0, b1, w0, w1, d1, d2, d3

BetRefs == (0 :> b0) @@ (1 :> b1)

WinRefs == (b0 :> w0) @@ (b1 :> w1)

Deposits == (p1 :> d1) @@ (p2 :> d2) @@ (p3 :> d3)

TwoDeposits == (p1 :> d1) @@ (p2 :> d2)

\* A roll decides a pass and a don't-pass bet together.
CrapsRolls ==
  {("pass" :> "win" @@ "dont" :> "lose"), ("pass" :> "lose" @@ "dont" :> "win"),
   ("pass" :> "lose" @@ "dont" :> "push"), ("pass" :> "carry" @@ "dont" :> "carry")}
=============================================================================
