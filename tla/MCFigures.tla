------------------------------ MODULE MCFigures ------------------------------
(* How the history is read, and what a walk that asks it makes of a library's *)
(* rows: the two share no variable in the model, so one run checks each of    *)
(* them on its own.  `part` names the one that moves, and the other stays as  *)
(* it begins.  The walk has five items of two shows, some listed twice with   *)
(* other contents, and a row without a key, against one other library.        *)
EXTENDS HistoryReads, LibStats

VARIABLES part

V(res, codec, parts) == [res |-> res, codec |-> codec, parts |-> parts]
R(key, media, added, viewed, show) ==
    [key |-> key, media |-> media, added |-> added, viewed |-> viewed, show |-> show]

MCRows == {
    R(1, <<V("4k", "h264", <<2>>)>>, 10, 0, 11),
    R(1, <<V("720p", "hevc", <<3>>)>>, 9, 0, 12),
    R(2, <<V("2160", "vp8", <<1, 1>>), V("sd", "h264", <<1>>)>>, 9, 7, 11),
    R(2, <<V("sd", "h264", <<>>)>>, 0, 0, 11),
    R(3, <<V("", "", <<2>>)>>, 10, 0, 12),
    R(3, <<V("720p", "hevc", <<4, 4>>)>>, 8, 0, 12),
    R(4, <<V("sd", "h264", <<5>>)>>, 3, 12, 0),
    R(5, <<V("1080", "hevc", <<2, 0>>)>>, 10, 0, 12),
    R(5, <<V("1080", "hevc", <<4>>)>>, 10, 0, 12),
    R(0, <<>>, 10, 0, 11) }

MCOthers == <<<<Entry(21, 0, 10, 0), Entry(22, 0, 9, 0)>>>>

MCInit ==
    /\ part \in {"reads", "figures"}
    /\ ReadsInit
    /\ StatsInit /\ (part # "figures" => ~showLibrary)

MCNext ==
    \/ part = "reads" /\ Next /\ UNCHANGED <<statsVars, part>>
    \/ part = "figures" /\ StatsNext /\ UNCHANGED <<vars, part>>

\* The fairness of HistoryReads asks for steps only where the reads move.
MCSpec ==
    /\ MCInit /\ [][MCNext]_<<vars, statsVars, part>>
    /\ WF_vars(part = "reads" /\ BeginBoot) /\ SF_vars(part = "reads" /\ BeginIncremental)
    /\ WF_vars(part = "reads" /\ ReadStep)
=============================================================================
