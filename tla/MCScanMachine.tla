---------------------------- MODULE MCScanMachine ----------------------------
(* Ladder programs for the scan check, circuit by circuit. *)
EXTENDS ScanMachine

I(op, form, dev) ==
  [op |-> op, form |-> form, dev |-> dev, src |-> Nothing, k |-> 0, enter |-> "inside"]
Const(i, k) == [i EXCEPT !.k = k]
From(i, src) == [i EXCEPT !.src = src]
Circuit(s) == [s EXCEPT ![1].enter = "circuit"]
Root(i) == [i EXCEPT !.enter = "root"]
N(op) == I(op, "", Nothing)

Coiled(s, dev) == Circuit(s \o <<I("OUT", "", dev)>>)
Timing(s, preset) == Circuit(s \o <<preset>>)
Lamp(dev) == Coiled(<<I("LD", "", dev)>>, "Y0")

T(k) == Const(I("OUT", "", "T0"), k)
C(k) == Const(I("OUT", "", "C0"), k)
Equal(op, k) == Const(I(op, "=", "D0"), k)

\* Two rows joined in parallel; the second one starts with a contact or a comparison.
Rows == Coiled(<<I("LD", "", "X0"), I("AND", "I", "M0"),
                 I("LD", "I", "X0"), I("AND", "", "Y0"), N("ORB")>>, "Y0")
Compared == Coiled(<<I("LD", "", "X0"), Equal("LD", 1), N("ORB"), I("AND", "", "M0")>>, "Y0")
InSeries == Coiled(<<I("LD", "", "X0"), I("OR", "", "M0"),
                     Equal("LD", 0), I("OR", "", "Y0"), N("ANB")>>, "M0")
Joined == Coiled(<<I("LD", "I", "X0"), Equal("AND", 1), Equal("OR", 0)>>, "M0")

\* One condition shared by three outputs.
Branches ==
  Circuit(<<I("LD", "", "X0"), N("MPS"), I("AND", "", "M0"), I("OUT", "", "Y0"), N("MRD"),
            I("AND", "I", "Y0"), I("SET", "", "M0"), N("MPP"), I("AND", "=", "D0"),
            I("RST", "", "M0")>>)

\* Edges of an input, of a relay that is written in the scan, and pulse outputs.
Edges == Circuit(<<I("LD", "P", "X0"), I("OR", "F", "M0"), I("PLS", "", "Y0")>>)
           \o Circuit(<<I("LD", "", "Y0"), I("PLF", "", "M0")>>)

\* Timers: driven through an unknown relay, reset by one, resetting themselves,
\* with a preset in a register.
Held == Timing(<<I("LD", "", "X0"), I("OR", "", "M0")>>, T(2)) \o Lamp("T0")
Stopped == Timing(<<I("LD", "", "X0")>>, T(2))
             \o Circuit(<<I("LD", "", "M0"), I("RST", "", "T0")>>)
             \o Lamp("T0") \o Coiled(<<I("LD", "I", "X0")>>, "M0")
Restarting == Circuit(<<I("LD", "", "T0"), I("RST", "", "T0")>>)
                \o Timing(<<I("LD", "", "X0")>>, From(T(0), "D0")) \o Lamp("T0")

\* A counter of a relay, reset at its preset; registers moved and cleared.
Counting == Timing(<<I("LD", "", "X0"), I("OR", "", "M0")>>, C(2))
              \o Circuit(<<I("LD", "P", "C0"), I("RST", "", "C0")>>) \o Lamp("C0")
Moving == Circuit(<<I("LD", "", "M0"), Const(I("MOV", "", "D0"), 1)>>)
            \o Timing(<<I("LD", "P", "X0")>>, From(C(0), "D0"))
            \o Circuit(<<I("LD", "", "C0"), I("RST", "", "D0"), Root(I("SET", "", "M0"))>>)

\* The programs of each run.
AllPrograms ==
  {Rows, Compared, InSeries, Joined, Branches, Edges, Held, Stopped, Restarting, Counting, Moving}
HeldTimer == {Held}
ComparedRow == {Compared}

\* What the stack holds before each instruction of a program: the programs are
\* balanced, as ExactTracesAreDecided requires.
Depths(prog) ==
  LET d[p \in 1 .. Len(prog) + 1] == IF p = 1 THEN 0 ELSE Left(d[p - 1], prog[p - 1])
  IN d

ASSUME ProgramsBalanced == \A prog \in Programs : Balanced(prog, Depths(prog))
=============================================================================
