----------------------------- MODULE MCProcess -----------------------------
(* The process, the background reads of its Refresh and the bandwidth reads  *)
(* share no variable in the model, so one run checks each of them on its own: *)
(* `part` names the one that moves, and the others stay as they begin.       *)
EXTENDS Exporter, BackgroundReads, Bandwidth

VARIABLES part

MCReads == <<"sections", "activities", "updater", "prefs">>
MCEvery == [sections |-> 3, activities |-> 2, updater |-> 4, prefs |-> 4]
MCStaleAfter == [r \in Lasting |-> 3 * MCEvery[r]]

MCInit ==
    /\ part \in {"process", "reads", "bandwidth"}
    /\ ExporterInit /\ (part # "process" => plex = "up")
    /\ BgInit /\ (part # "reads" => health = "down")
    /\ BwInit

MCNext ==
    \/ part = "process" /\ ExporterNext /\ UNCHANGED <<bgVars, bwVars, part>>
    \/ part = "reads" /\ BgNext /\ UNCHANGED <<vars, bwVars, part>>
    \/ part = "bandwidth" /\ BwNext /\ UNCHANGED <<vars, bgVars, part>>

\* BgFairness asks for steps only where the background reads move.
MCSpec ==
    /\ MCInit /\ [][MCNext]_<<vars, bgVars, bwVars, part>>
    /\ ExporterFairness
    /\ WF_bgVars(part = "reads" /\ PassStep) /\ WF_bgVars(part = "reads" /\ BgTick)
============================================================================
