--------------------------- MODULE MCProductState ---------------------------
(***************************************************************************)
(* Small instances of ProductState: two models, one voice, and every three *)
(* calls about them.                                                       *)
(***************************************************************************)
EXTENDS ProductState, TLC

CONSTANTS m1, m2, v1

TwoModels == {m1, m2}
OneVoice == {v1}

On(op, kind, id) == [op |-> op, kind |-> kind, id |-> id]

\* What can be done to m2 as well is done to m1 only.
Menu == <<{On("install", "model", m1), On("use", "model", m1), On("remove", "model", m1)},
          {On("use", "model", m2)},
          {On("clone", "voice", v1), On("use", "voice", v1), On("remove", "voice", v1)},
          {On("speak", "voice", v1), On("speak", "voice", None)},
          {On("set", "all", None)}>>

\* Calls of different groups do not wait for each other: one order of the groups
\* is enough.
AnyThree ==
  {s \in [1 .. 3 -> UNION {Menu[g] : g \in DOMAIN Menu}] :
     \E g \in [1 .. 3 -> DOMAIN Menu] :
       /\ \A i \in 1 .. 3 : s[i] \in Menu[g[i]]
       /\ g[1] <= g[2] /\ g[2] <= g[3] /\ g[2] < 5}

Store(model, voice, first, profile, older) ==
  [config |-> [model |-> model, voice |-> voice],
   dir |-> m1 :> first @@ m2 :> "good" @@ v1 :> profile,
   legacy |-> m1 :> "none" @@ m2 :> "none" @@ v1 :> older]

SomeStores == 
  {Store(m1, None, "good", "none", "good"), Store(m2, v1, "damaged", "good", "none")}
SomeConfigs == {[model |-> m1, voice |-> v1]}
=============================================================================
