------------------------------ MODULE MCRoutes ------------------------------
(***************************************************************************)
(* Instances of Routes for TLC: what is on the wires and in the tables.    *)
(***************************************************************************)
EXTENDS Routes

MCNames == {"tcp", "can", "solver", "framing", "cycle", "stat", "replay", "base",
            "reserver", "rawlog", "retention"}

\* Wires of six bytes, at most three of which may begin a frame; two good frames
\* do not overlap.
Cells == {NoSync} \cup {Sync(n, g) : n \in {3, 4}, g \in BOOLEAN}
Syncs(w) == {i \in DOMAIN w : w[i].sync}
MCWires == {w \in [1..6 -> Cells] : FramesApart(w) /\ Cardinality(Syncs(w)) <= 3}
MCTexts == [1..6 -> {"x", "nl"}]

\* what the theorem about these wires takes for granted
ASSUME MCRoutesAssumption == NoShortMessages

\* Tables with rows before, in and behind the windows, on whole seconds and off.
At(src, ts) == {[src |-> src, t |-> t] : t \in ts}
MCEpochs == {At("can", c) \cup At("gpchc", g) \cup At("rtkrcv", r) :
               c \in {{}, {5, 6}, {2, 7}, {4, 5, 7}}, g \in {{}, {6}, {5, 8}},
               r \in {{}, {1}, {3, 6, 7}}}
Ev(d, t, close) == [diagnosis |-> d, t |-> t, t_close |-> close]
MCEvents == {{}, {Ev(TRUE, 5, 7), Ev(FALSE, 6, 6)},
             {Ev(TRUE, 6, NotClosed), Ev(TRUE, 1, 5)}, {Ev(TRUE, 6, 6), Ev(TRUE, 3, 9)}}
MCWindows == {[t0 |-> 4, t1 |-> 8], [t0 |-> 3, t1 |-> 7]}

MCKinds == {[indexed |-> TRUE, every |-> 1], [indexed |-> FALSE, every |-> 3]}
=============================================================================
