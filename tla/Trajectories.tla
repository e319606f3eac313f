---------------------------- MODULE Trajectories ----------------------------
(***************************************************************************)
(* The two readers of mini-SWE-agent trajectories: trace_workflow and      *)
(* load_server_workflows of the trace server                               *)
(* (swebench_microvm_scale_experiment.py), trajectory_manifest and         *)
(* trajectories of run_yig_microvm_replay.py.  A capacity found by one     *)
(* experiment is compared with the other's, so that both have to replay    *)
(* the same commands.                                                      *)
(***************************************************************************)
EXTENDS Naturals, Sequences, SequencesExt, FiniteSets

CONSTANTS
  TraceIds,    (* instance ids                                             *)
  MaxMessages, (* bound: assistant messages with tool calls                *)
  MaxTimings,  (* bound: step_timings                                      *)
  MaxCalls     (* bound: tool calls of a message                           *)

VARIABLE input   (* the trajectories in the order of their paths           *)

\* What a tool call can be: another tool's, or one of bash, whose arguments are
\* a JSON string or an object, with a command that is a string, one that is
\* not, or none.
Calls == {"other tool", "string", "string, odd command", "object",
          "object, odd command", "no command"}

Trajectory(calls) ==
  LET message == UNION {[1 .. k -> Calls] : k \in 1 .. calls}
  IN [id : TraceIds, messages : UNION {[1 .. n -> message] : n \in 0 .. MaxMessages},
      timings : 0 .. MaxTimings]

\* One trajectory, or two with a call in each message.
TrajectoryInit ==
  input \in {<<file>> : file \in Trajectory(MaxCalls)} \cup (Trajectory(1) \X Trajectory(1))

\* The calls of a timed turn: of the assistant message with its number, if any.
TurnCalls(file, n) == IF n \in DOMAIN file.messages THEN file.messages[n] ELSE <<>>

AllCalls(file) == UNION {Range(TurnCalls(file, n)) : n \in 1 .. file.timings}

\* The commands of each turn, told by the calls they come from, whose order is
\* theirs.
Commands(file, accepted) ==
  [n \in 1 .. file.timings |->
     {<<n, k>> : k \in {c \in DOMAIN TurnCalls(file, n) : TurnCalls(file, n)[c] \in accepted}}]

(***************************************************************************)
(* The trace server.                                                       *)
(***************************************************************************)

\* ValueError: a bash call without a command, or no timed turn.
WorkflowFails(file) ==
  \/ "no command" \in AllCalls(file)
  \/ file.timings = 0

TraceWorkflow(file) == Commands(file, {"string", "object"})

FirstOf(files, id) == CHOOSE n \in DOMAIN files :
                        files[n].id = id /\ \A m \in 1 .. n - 1 : files[m].id # id

\* setdefault: the first trajectory of an instance.
LoadServerWorkflows(files) ==
  [id \in {files[n].id : n \in DOMAIN files} |-> TraceWorkflow(files[FirstOf(files, id)])]

(***************************************************************************)
(* run_yig_microvm_replay.py.                                              *)
(***************************************************************************)

\* ValueError: json.loads of an object, no command, or an odd one.
ManifestFails(file) == ~ AllCalls(file) \subseteq {"other tool", "string"}

TrajectoryManifest(file) == Commands(file, {"string"})

Unmatched(file) ==
  IF Len(file.messages) > file.timings THEN Len(file.messages) - file.timings ELSE 0

\* trajectories: files whose instance has been found already are left out.
Found(files) ==
  LET first == {n \in DOMAIN files : \A m \in 1 .. n - 1 : files[m].id # files[n].id}
      order == CHOOSE o \in [1 .. Cardinality(first) -> first] :
                 \A i, j \in DOMAIN o : i < j => o[i] < o[j]
  IN [k \in DOMAIN order |-> [id |-> files[order[k]].id,
                              turns |-> TrajectoryManifest(files[order[k]]),
                              unmatched |-> Unmatched(files[order[k]])]]

(***************************************************************************)
(* Properties.                                                             *)
(***************************************************************************)

\* When both programs can read the trajectories they replay the same turns for
\* the same instances.  Where they differ it is not silently: the yig script
\* reads what the server refuses only for want of timings, the server what the
\* script refuses only with arguments that are objects or odd commands.
\* Messages lose their commands only for want of a timing, which the script
\* counts.
ReadersAgree ==
  LET serverFails == \E n \in DOMAIN input : WorkflowFails(input[n])
      yigFails == \E n \in DOMAIN input : ManifestFails(input[n])
      workflows == LoadServerWorkflows(input)
      found == Found(input)
      untimed(file) == {n \in DOMAIN file.messages :
                          Range(file.messages[n]) # {"other tool"}
                            /\ \A t \in 1 .. file.timings :
                                 \A c \in TrajectoryManifest(file)[t] : c[1] # n}
  IN /\ ~serverFails /\ ~yigFails =>
          /\ {found[n].id : n \in DOMAIN found} = DOMAIN workflows
          /\ Len(found) = Cardinality(DOMAIN workflows)
          /\ \A n \in DOMAIN found : workflows[found[n].id] = found[n].turns
     /\ serverFails /\ ~yigFails => \E n \in DOMAIN input : input[n].timings = 0
     /\ ~yigFails => \A n \in DOMAIN found :
          Cardinality(untimed(input[FirstOf(input, found[n].id)])) <= found[n].unmatched

=============================================================================
