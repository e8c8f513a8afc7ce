-------------------------- MODULE EventStreamHistory --------------------------
(***************************************************************************)
(* EventStream with a history variable that counts the subscribe calls     *)
(* that failed since the raw stream was last up, which is what the         *)
(* documentation of Event::Reconnected says its attempts field holds.      *)
(***************************************************************************)
EXTENDS EventStream

VARIABLE refused  \* calls that failed since the stream was last streaming

historyVars == <<vars, refused>>

HistoryInit == Init /\ refused = 0

HistoryNext ==
    /\ Next
    /\ refused' =
         CASE state = "Connecting" /\ state' \in {"Waiting", "Ended"} -> Bump(refused)
           [] state = "Connecting" /\ state' = "Streaming" -> 0
           [] OTHER -> refused

HistoryFairness ==
    /\ WF_historyVars(ClientStep /\ HistoryNext)
    /\ WF_historyVars(TimerFires /\ HistoryNext)
    /\ WF_historyVars(CallAnswered /\ HistoryNext)

HistorySpec == HistoryInit /\ [][HistoryNext]_historyVars /\ HistoryFairness

-----------------------------------------------------------------------------
\* Event::Reconnected, stream.rs:74: "Failed attempts before this one
\* succeeded."
AttemptsAreFailedAttempts ==
    [][ (state = "Connecting" /\ state' = "Streaming") => ret'.attempts = refused
      ]_historyVars
=============================================================================
