-------------------------- MODULE CompositeClient --------------------------
(***************************************************************************)
(* CompositeClientSet (pkg/kubernetes/composite_client.go): every call is  *)
(* made by two goroutines, one with the old and one with the new cluster   *)
(* authority, which retry on their own; the caller takes the first answer  *)
(* from an unbuffered channel, or an error when its timer fires. While     *)
(* rotate-certs restarts the masters the API server changes authority.     *)
(*                                                                         *)
(* One object stands for what the calls are about. Calls are made one      *)
(* after the other; goroutines of earlier calls may still be running.      *)
(***************************************************************************)
EXTENDS Integers, Sequences

CONSTANTS
    Programs,   \* sequences of calls the caller may make
    Steps,      \* backoff.Steps: timeout / interval
    MaxFaults   \* bound: failed attempts other than for the authority

VARIABLES
    prog,      \* the calls of this behaviour
    wrapped,   \* the authority error is wrapped, so that retriable misses it
    rotatedIn, \* the call in which the API server changed authority, or 0
    object,    \* its value, or Absent
    caller,    \* how many calls were made, and whether the last has returned
    results,   \* what calls returned
    exec,      \* the goroutines of each call
    faults,
    held       \* the values the object had since the current call was made

clientVars == <<prog, wrapped, rotatedIn, object, caller, results, exec, faults, held>>

Clients == {"old", "new"}
Absent  == "absent"
Values  == {"v0", "v1"}
Objects == Values \union {Absent}
\* ListPods, ListNodes, ListServiceAccounts, ListDeployments, ListDaemonSets
\* and ListSecrets; GetDeployment; PatchDeployment and PatchDaemonSet;
\* DeletePods, DeleteServiceAccount and DeleteSecret
Kinds == {"list", "get", "patch", "delete"}
Requests == [kind: Kinds, value: Values]
NotFound == [is |-> "notFound"]
Ok(x)    == [is |-> "ok", x |-> x]
LastError == [is |-> "error"]
Answers == {Ok(x) : x \in Objects} \union {NotFound}

ASSUME ClientAssumption ==
    /\ Programs \subseteq Seq(Requests)
    /\ Steps \in Nat \ {0} /\ MaxFaults \in Nat

NotYet == -1

Calls == DOMAIN exec

ClientTypeOK ==
    /\ prog \in Programs
    /\ wrapped \in BOOLEAN
    /\ rotatedIn \in NotYet..Len(prog)
    /\ object \in Objects
    /\ caller \in [at: 0..Len(prog), waiting: BOOLEAN]
    /\ results \in Seq(Answers \union {LastError})
    /\ Len(results) = caller.at - (IF caller.waiting THEN 1 ELSE 0)
    /\ exec \in Seq([Clients -> [pc: {"try", "send", "end"}, left: 0..Steps,
                                 got: Answers \union {LastError}]])
    /\ faults \in 0..MaxFaults
    /\ held \subseteq Objects

ClientInit ==
    /\ prog \in Programs
    /\ wrapped \in BOOLEAN
    /\ rotatedIn = NotYet
    /\ object \in Objects
    /\ caller = [at |-> 0, waiting |-> FALSE]
    /\ results = << >>
    /\ exec = << >>
    /\ faults = 0
    /\ held = {object}

-----------------------------------------------------------------------------
(* The caller *)

\* go exec(oldCAClient); go exec(newCAClient)
Call ==
    /\ ~caller.waiting
    /\ caller.at < Len(prog)
    /\ caller' = [at |-> caller.at + 1, waiting |-> TRUE]
    /\ exec' = Append(exec, [c \in Clients |-> [pc |-> "try", left |-> Steps, got |-> LastError]])
    /\ held' = {object}
    /\ UNCHANGED <<prog, wrapped, rotatedIn, object, results, faults>>

Return(result) ==
    /\ caller' = [caller EXCEPT !.waiting = FALSE]
    /\ results' = Append(results, result)

\* Mistake: the calls share one channel.
ReceiveFromAny(i, c) ==
    /\ caller.waiting
    /\ exec[i][c].pc = "send"
    /\ Return(exec[i][c].got)
    /\ exec' = [exec EXCEPT ![i][c].pc = "end"]
    /\ UNCHANGED <<prog, wrapped, rotatedIn, object, faults, held>>

\* case res := <-result
Receive(i, c) ==
    /\ caller.waiting /\ i = caller.at
    /\ exec[i][c].pc = "send"
    /\ Return(exec[i][c].got)
    /\ exec' = [exec EXCEPT ![i][c].pc = "end"]
    /\ UNCHANGED <<prog, wrapped, rotatedIn, object, faults, held>>

\* case <-time.After(c.timeout), which is as long as all attempts of a goroutine
\* take. A goroutine that has not made them all by then met a slow server.
Timeout ==
    /\ caller.waiting
    /\ \/ \A c \in Clients : exec[caller.at][c].pc = "end" /\ UNCHANGED faults
       \/ faults < MaxFaults /\ faults' = faults + 1
    /\ Return(LastError)
    /\ UNCHANGED <<prog, wrapped, rotatedIn, object, exec, held>>

-----------------------------------------------------------------------------
(* A goroutine: retry.OnError around one request *)

\* Mistake: the goroutine never stops retrying.
RetryForEver(g) == g

\* ExponentialBackoff gives up after Steps attempts.
Retry(g) == [g EXCEPT !.left = @ - 1, !.pc = IF g.left = 1 THEN "end" ELSE "try"]

\* What the API server does with a request.
Effect(call) ==
    CASE call.kind = "patch" /\ object # Absent -> call.value
      [] call.kind = "delete" -> Absent
      [] OTHER -> object

\* A list of nothing is not an error.
Reply(call) ==
    IF object = Absent /\ call.kind # "list" THEN NotFound
    ELSE Ok(Effect(call))

Trusted(c) == c = (IF rotatedIn = NotYet THEN "old" ELSE "new")

\* The request is executed; nil and NotFound are sent, and wait for a receiver.
\* (The list calls send nil only. They do not get NotFound.)
Answered(i, c) ==
    /\ exec[i][c].pc = "try"
    /\ Trusted(c)
    /\ object' = Effect(prog[i])
    /\ held' = held \union {object'}
    /\ exec' = [exec EXCEPT ![i][c].pc = "send", ![i][c].got = Reply(prog[i])]
    /\ UNCHANGED <<prog, wrapped, rotatedIn, caller, results, faults>>

\* Mistake: the authority error is sent to the caller.
UntrustedSent(i, c) ==
    /\ exec[i][c].pc = "try"
    /\ ~Trusted(c)
    /\ exec' = [exec EXCEPT ![i][c].pc = "send", ![i][c].got = LastError]
    /\ UNCHANGED <<prog, wrapped, rotatedIn, object, caller, results, faults, held>>

\* retriable: an UnknownAuthorityError, bare or in a url.Error, ends the
\* goroutine. crypto/tls wraps it in an error of its own since Go 1.20, which
\* is retried.
Untrusted(i, c) ==
    /\ exec[i][c].pc = "try"
    /\ ~Trusted(c)
    /\ exec' = [exec EXCEPT ![i][c] = IF wrapped THEN Retry(@) ELSE [@ EXCEPT !.pc = "end"]]
    /\ UNCHANGED <<prog, wrapped, rotatedIn, object, caller, results, faults, held>>

\* Any other error, before or after the request was executed.
Failed(i, c) ==
    /\ exec[i][c].pc = "try"
    /\ Trusted(c)
    /\ faults < MaxFaults
    /\ object' \in {object, Effect(prog[i])}
    /\ held' = held \union {object'}
    /\ exec' = [exec EXCEPT ![i][c] = Retry(@)]
    /\ faults' = faults + 1
    /\ UNCHANGED <<prog, wrapped, rotatedIn, caller, results>>

\* The masters have been restarted with the new certificates.
Rotated ==
    /\ rotatedIn = NotYet
    /\ rotatedIn' = IF caller.waiting THEN caller.at ELSE 0
    /\ UNCHANGED <<prog, wrapped, object, caller, results, exec, faults, held>>

Goroutines == \E i \in Calls, c \in Clients : Answered(i, c) \/ Untrusted(i, c)
Caller     == Call \/ Timeout \/ \E i \in Calls, c \in Clients : Receive(i, c)

ClientNext ==
    \/ Caller \/ Goroutines \/ Rotated
    \/ \E i \in Calls, c \in Clients : Failed(i, c)

ClientSpec == ClientInit /\ [][ClientNext]_clientVars

\* Goroutines and timers run.
FairClientSpec == ClientSpec /\ WF_clientVars(Goroutines) /\ WF_clientVars(Caller)

-----------------------------------------------------------------------------
(* Properties *)

\* Whichever goroutine answers, and whatever the other one does meanwhile: a
\* read returns a value the object had during the call; after a delete that
\* returns nil or NotFound it is gone; a patch that returns nil was applied.
AnswersAreTrue ==
    [][\A i \in Calls : Len(results') = i /\ Len(results) < i /\ results'[i] # LastError =>
        LET r == results'[i]
        IN  CASE prog[i].kind \in {"list", "get"} -> (IF r = NotFound THEN Absent ELSE r.x) \in held
              [] prog[i].kind = "delete" -> object = Absent
              [] prog[i].kind = "patch"  -> IF r = NotFound THEN Absent \in held
                                            ELSE prog[i].value \in held]_clientVars

\* Without faults a call fails only if the authority changed while it was made:
\* one client is enough at any other time. If the authority error is retried it
\* also takes all attempts with the new authority to have come too early.
ErrorsHaveCauses ==
    faults = 0 =>
        \A i \in DOMAIN results : results[i] = LastError =>
            rotatedIn = i /\ (wrapped => exec[i]["new"].left = 0)

\* Every call returns, and the goroutines stop making requests, also those of
\* calls that have returned before their clients gave up.
CallsReturn ==
    /\ <>(caller.at = Len(prog) /\ ~caller.waiting)
    /\ <>[](\A i \in Calls, c \in Clients : exec[i][c].pc # "try")

=============================================================================
