----------------------------- MODULE MCRequests -----------------------------
(***************************************************************************)
(* Plans for TLC: what is asked of the sidecar while what happens.         *)
(***************************************************************************)
EXTENDS SidecarRequests

A == <<"app", "A">>
B == <<"app", "B">>
Boom == <<"app", "Boom">>
MCNames == {"app", "A", "B", "Boom"}
MCSites == {"10", "20", "99", "f", "m", "n"}
Code == {<<A, "10">>, <<A, "20">>, <<A, "f">>, <<B, "10">>}

Do(op, w) == [op |-> op, what |-> w]
Break(c, line) == Do("set", What("break", c, line, ""))
Watch(mode)    == Do("set", What("watch", A, "f", mode))
Unwatch(mode)  == Do("unwatch", What("watch", A, "f", mode))
Clear(kind, c, site) == Do("clear", What(kind, c, site, ""))
Go == Do("continue", What("break", A, "", ""))

Load(c) == What("prepare", c, "", "")
At(c, line) == What("break", c, line, "")
Touch(mode) == What("watch", A, "f", mode)
Call(m, mode) == What("method", A, m, mode)
Throw(c, mode) == What("catch", c, "", mode)

Program == <<Load(A), At(A, "10"), Touch("modification"), Touch("access"), At(A, "20"), Load(B), At(B, "10")>>

Plan(ops, run, calm, start) ==
    [ops |-> ops, run |-> run, calm |-> calm, start |-> start, code |-> Code]

\* Deferred breakpoints and watches, set, narrowed, cleared and set again, before
\* the class is loaded and at stops after.
Asks == {Break(A, "10"), Break(A, "20"), Break(A, "99"), Break(B, "10"), Watch("all"), Watch("access"),
         Unwatch("access"), Unwatch("all"), Clear("break", A, "20"), Clear("watch", A, "f")}
Deferring == {Plan(<<x, y, z, Go, w, Go, Go>>, Program, TRUE, "stopped") : x, y, z \in Asks,
                w \in {Break(A, "20"), Watch("all"), Unwatch("access"), Clear("watch", A, "f")}}

\* Method events and exceptions.
Others ==
    {Plan(<<x, y, Go, z, Go, Go>>,
          <<Load(A), Call("m", "entry"), Throw(Boom, "caught"), Call("n", "exit"), Load(Boom),
            Call("m", "exit"), Throw(Boom, "uncaught"), Throw(A, "caught")>>, TRUE, "stopped") :
        x, y, z \in {Do("method", What("method", A, "m", mode)) : mode \in {"entry", "both"}}
                    \cup {Do("catch", What("catch", c, "", mode)) :
                              c \in {Boom, <<"Boom">>}, mode \in {"all", "caught"}}
                    \cup {Do("ignore", What("catch", Boom, "", mode)) : mode \in {"all", "caught"}}
                    \cup {Clear("method", A, "m"), Clear("catch", <<"Boom">>, ""), Do("list", Load(A))}}

\* One class is loaded while another request changes the lists it is resolved in.
Overlapping ==
    {Plan(<<Break(B, "10"), x, y>>, Program, FALSE, "running") :
        x \in {Break(A, "10"), Watch("all")},
        y \in {Break(A, "20"), Clear("break", A, "10"), Clear("break", B, "10"), Watch("all")}}

\* Requests while the target runs.
Racing ==
    {Plan(<<Break(A, "10"), Break(A, "20"), x, y>>, Program, FALSE, "running") :
        x \in {Break(A, "99"), Watch("all"), Clear("break", A, "10"), Go},
        y \in {Do("list", Load(A)), Clear("break", A, "20"), Unwatch("access"), Watch("access")}}
    \cup Overlapping
    \cup
    {Plan(<<Do("catch", What("catch", Boom, "", "all")), x, Go>>,
          <<Throw(Boom, "caught"), Throw(A, "caught"), Load(Boom)>>, FALSE, "running") :
        x \in {Do("catch", What("catch", A, "", "all")), Do("ignore", What("catch", Boom, "", "all"))}}

\* Two breakpoints in one class, one of them on a line without code.
BadLinePlans == {Plan(<<Break(A, x), Break(A, y), Go>>, Program, TRUE, "stopped") : x, y \in {"10", "99"}}

MCPlans == Deferring \cup Others \cup Racing
=============================================================================
