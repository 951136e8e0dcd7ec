---------------------------- MODULE MCStructure -----------------------------
(***************************************************************************)
(* Structure for TLC: the methods a compiler makes of small structured     *)
(* programs of statements, returns, loops, and ifs: without an else, with  *)
(* one, and with a branch that is laid out at the end of the method.       *)
(***************************************************************************)
EXTENDS Structure

CONSTANT MaxStatements

\* Lists of n statements, the nested ones counted.  Nothing follows a return.
RECURSIVE Lists(_), Statement(_)
Lists(n) ==
    IF n = 0 THEN {<<>>}
    ELSE UNION {{<<s>> \o rest : s \in Statement(k), rest \in Lists(n - k)} : k \in 1 .. n - 1}
         \cup {<<s>> : s \in Statement(n)}
         \cup IF n = 1 THEN {<<[is |-> "return"]>>} ELSE {}
Statement(n) ==
    IF n = 1 THEN {[is |-> "plain"]}
    ELSE {[is |-> kind, body |-> p] : kind \in {"if", "out", "while"}, p \in Lists(n - 1)}
         \cup UNION {{[is |-> "else", body |-> p, other |-> q] :
                        p \in Lists(k), q \in Lists(n - 1 - k)} : k \in 1 .. n - 2}

Coded(op, targets) == [op |-> op, targets |-> targets]
ReturnCode == <<Coded("return", <<>>)>>
GotoCode(a) == <<Coded("goto", <<a>>)>>
IfCode(a) == <<Coded("if", <<a>>)>>

\* The code of a list at an address, and of its branches out of line at another.
RECURSIVE Emit(_, _, _)
Emit(p, at, late) ==
    IF p = <<>> THEN [main |-> <<>>, out |-> <<>>]
    ELSE LET s == Head(p)
             body == Emit(s.body, at + 1, late)
             end == at + 1 + Len(body.main)
             other == Emit(s.other, end + 1, late + Len(body.out))
             away == Emit(s.body, late, late + Len(Emit(s.body, 0, 0).main) + 1)
             one == CASE s.is = "plain"  -> [main |-> <<Coded("plain", <<>>)>>, out |-> <<>>]
                      [] s.is = "return" -> [main |-> ReturnCode, out |-> <<>>]
                      [] s.is = "if"     -> [main |-> IfCode(end) \o body.main, out |-> body.out]
                      [] s.is = "while"  -> [main |-> IfCode(end + 1) \o body.main \o GotoCode(at),
                                             out |-> body.out]
                      [] s.is = "else"   -> [main |-> IfCode(end + 1) \o body.main
                                                        \o GotoCode(end + 1 + Len(other.main))
                                                        \o other.main,
                                             out |-> body.out \o other.out]
                      [] s.is = "out"    -> [main |-> IfCode(late),
                                             out |-> away.main \o GotoCode(at + 1) \o away.out]
             rest == Emit(Tail(p), at + Len(one.main), late + Len(one.out))
         IN  [main |-> one.main \o rest.main, out |-> one.out \o rest.out]

Compiled(p) ==
    LET all == Emit(p, 1, Len(Emit(p, 1, 1).main) + 2)
    IN  all.main \o ReturnCode \o all.out

\* What structure_region recovers: a return only where an if of the outermost
\* level guards it, and neither an else nor a return inside a loop.
RECURSIVE Recoverable(_, _)
Recoverable(p, where) ==
    \A i \in DOMAIN p :
        LET s == p[i] IN
            CASE s.is = "plain"  -> TRUE
              [] s.is = "return" -> where = "guard"
              [] s.is = "while"  -> Recoverable(s.body, "loop")
              [] s.is = "else"   -> /\ where # "loop"
                                    /\ \A q \in {s.body, s.other} :
                                          Recoverable(q, IF where = "top" THEN "guard" ELSE "inner")
              [] OTHER           -> Recoverable(s.body, CASE where = "top" -> "guard"
                                                          [] where = "guard" -> "inner"
                                                          [] OTHER -> where)

AllLists == UNION {Lists(n) : n \in 1 .. MaxStatements}
RecoverablePrograms == {Compiled(p) : p \in {q \in AllLists : Recoverable(q, "top")}}

\* Ifs, elses and loops in one another, without returns in between.
RECURSIVE WithoutReturns(_)
WithoutReturns(p) ==
    \A i \in DOMAIN p :
        CASE p[i].is \in {"out", "return"} -> FALSE
          [] p[i].is = "plain" -> TRUE
          [] p[i].is = "else" -> WithoutReturns(p[i].body) /\ WithoutReturns(p[i].other)
          [] OTHER -> WithoutReturns(p[i].body)

StraightPrograms == {Compiled(p) : p \in {q \in AllLists : WithoutReturns(q)}}

NoHandlers == {<<>>}
MCTerminators ==
    {[kind |-> kind, targets |-> <<>>] : kind \in {"return", "generic"}}
    \cup {[kind |-> kind, targets |-> <<t>>] : kind \in {"goto", "branch"}, t \in Blocks}
=============================================================================
