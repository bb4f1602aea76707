------------------------------- MODULE TaskRun -------------------------------
(***************************************************************************)
(* internal/engine/manager.go, processTask: the goroutine that carries one *)
(* download from "claimed" to its end.  It resolves a method, downloads,   *)
(* walks the debrid candidates and the other methods when the transport    *)
(* fails, verifies what is on disk, retries a bounded number of times and  *)
(* settles the task.  A cancel (or pause) by the user and a shutdown of the *)
(* daemon land between any two of its steps.                               *)
(*                                                                         *)
(* An error is what processTask tells apart: "disk" (full), "storage" (the *)
(* destination faulted), "corrupt" (integrity, not repairable by another   *)
(* link), "remote" (integrity, the link's fault), "conflict" (the link is  *)
(* another file), "vpn" (the tunnel died), "transition" (a Transition of   *)
(* this goroutine was rejected), "ctx" (its context ended) and "plain".    *)
(***************************************************************************)
EXTENDS Task, Integers, Sequences, FiniteSets

CONSTANTS Preferred,        \* what the server may ask for: PreferredMethod
          ConfigMethods,    \* what config.toml may list: preferred_methods
          Registered,       \* the downloaders of this agent
          Sources,          \* debrid candidates in the task's SourceSet
          HasResolver       \* ManagerConfig.ResolveSource is set

Methods == {"torrent", "debrid", "usenet", "iptv"}
ASSUME RunAssumption == /\ Registered \subseteq Methods
                        /\ Sources \in Nat
                        /\ HasResolver \in BOOLEAN

maxIntegrityAttempts == 3
maxStorageAttempts == 2

Integrity == {"corrupt", "remote", "conflict"}
Error == {"none", "disk", "storage", "vpn", "transition", "ctx", "plain"} \cup Integrity

VARIABLES
    status,           \* Task.Status
    pc, phase, err,   \* where the goroutine is, whether it runs the first choice,
                      \* a debrid repair or a fallback, and the error it holds
    order,            \* effectiveOrder of the task, fixed
    method, tried,    \* Task.ResolvedMethod, Task.TriedMethods
    left,             \* candidates NextDebridRepairSource has not handed out
    attempt, storageAttempt,
    outcome,          \* how the run ended, with the marker of the error message
    ctxDone, stop, shuttingDown,
    downloads,        \* history: downloads begun,
    corruptions,      \* attempts that ended with an integrity error,
    lost              \* and the attempt that lost the VPN tunnel, 0 when none did

control == <<pc, phase, err>>
choice == <<order, method, tried, left>>
counts == <<attempt, storageAttempt>>
env == <<ctxDone, stop, shuttingDown>>
history == <<downloads, corruptions, lost>>
vars == <<status, control, choice, counts, outcome, env, history>>

Elements(s) == {s[i] : i \in DOMAIN s}

\* The agent's own list wins and gates; without one, the task's preference.
effectiveOrder(preferred, config) ==
    LET known == SelectSeq(config, LAMBDA m : m \in {"torrent", "debrid", "usenet"})
    IN  CASE preferred = "iptv" -> <<"iptv">>
          [] preferred # "iptv" /\ known # <<>> -> known
          [] preferred \in {"torrent", "debrid", "usenet"} /\ known = <<>> -> <<preferred>>
          [] OTHER -> <<"torrent", "debrid", "usenet">>

Init == /\ status = "claimed"
        /\ pc = "attempt" /\ phase = "first" /\ err = "none"
        /\ order \in {effectiveOrder(p, c) : p \in Preferred, c \in ConfigMethods}
        /\ method = "none" /\ tried = {} /\ left = Sources
        /\ attempt = 1 /\ storageAttempt = 0
        /\ outcome = "running"
        /\ ctxDone = FALSE /\ stop = "no" /\ shuttingDown = FALSE
        /\ downloads = 0 /\ corruptions = 0 /\ lost = 0

-----------------------------------------------------------------------------
\* Mutant: the fallback's own error is reported.
JudgeUnmasked(e) == pc' = "judge" /\ err' = e /\ UNCHANGED phase

\* processTask gets error e of an attempt.  A fallback's error after a lost tunnel
\* is masked by the tunnel's: the torrent stays resumable.
Judge(e) == /\ pc' = "judge"
            /\ err' = IF phase = "fallback" /\ err = "vpn" THEN "vpn" ELSE e
            /\ UNCHANGED phase

Goto(p) == pc' = p /\ UNCHANGED <<phase, err>>

\* Transition to s, and on to p; when it is rejected the attempt has failed.
Move(s, p) == /\ status' = Transition(status, s)
              /\ IF s \in validTransitions[status] THEN Goto(p) ELSE Judge("transition")

Attempt == /\ pc = "attempt"
           /\ status' = Transition(status, "resolving")
           /\ phase' = "first"
           /\ IF status' = "resolving" /\ status # "resolving"
              THEN pc' = "resolve" /\ err' = "none"
              ELSE pc' = "judge" /\ err' = "transition"
           /\ UNCHANGED <<choice, counts, outcome, env, history>>

Untried(t) == {m \in Elements(order) \cap Registered : m \notin t}

\* resolveMethod: the first untried, registered method whose Available() says yes
\* - an answer from the network, so any of them may be the first - or none.
ResolveMethod ==
    /\ pc = "resolve"
    /\ \/ \E m \in Untried(tried) : method' = m /\ Goto("start")
       \/ UNCHANGED method /\ Judge("plain")
    /\ UNCHANGED <<status, order, tried, left, counts, outcome, env, history>>

StartDownload == /\ pc = "start"
                 /\ Move("downloading", "download")
                 /\ UNCHANGED <<choice, counts, outcome, env, history>>

\* The errors a downloader returns.  An IPTV download is a debrid transfer in disguise.
Failures(m) == {"plain", "disk", "storage"}
               \cup (IF m \in {"torrent", "usenet"} THEN {"corrupt"} ELSE {})
               \cup (IF m \in {"debrid", "iptv"} THEN {"remote", "conflict"} ELSE {})
               \cup (IF m = "torrent" THEN {"vpn"} ELSE {})
               \cup (IF ctxDone THEN {"ctx"} ELSE {})

\* No other link and no other method is asked after e.
Final(e) == e \in {"disk", "storage", "corrupt"} \/ (e = "remote" /\ method # "debrid")

\* runDownload returned error e: what attemptDownload, attemptDebridRepairSource or
\* attemptFallback makes of it.
Failed(e) ==
    CASE phase = "fallback" -> Judge(e)
      [] phase = "repair" -> IF Final(e) \/ ctxDone THEN Judge(e) ELSE Goto("repairing")
      [] phase = "first" /\ Final(e) -> Judge(e)
      [] phase = "first" /\ ~Final(e) ->
             /\ pc' = IF method = "debrid" /\ ~ctxDone /\ HasResolver THEN "repair" ELSE "fallback"
             /\ err' = e /\ UNCHANGED phase

Download ==
    /\ pc = "download"
    /\ downloads' = downloads + 1
    /\ \/ /\ pc' = "verify" /\ err' = "none"
          /\ UNCHANGED <<phase, lost>>
       \/ \E e \in Failures(method) :
             /\ Failed(e)
             /\ lost' = IF e = "vpn" THEN attempt ELSE lost
    /\ UNCHANGED <<status, choice, counts, outcome, env, corruptions>>

-----------------------------------------------------------------------------
\* Mutant: the candidate is not reserved before it is asked for.
RepairNextAgain ==
    /\ pc \in {"repair", "repairing"}
    /\ IF left > 0
       THEN status' = "resolving" /\ pc' = "ask" /\ phase' = "repair" /\ UNCHANGED err
       ELSE UNCHANGED <<status, phase>> /\ Goto("fallback")
    /\ UNCHANGED <<choice, counts, outcome, env, history>>

\* tryDebridSourceRepair.  "repair" is its first turn, "repairing" a later one: once
\* a candidate was tried, an ended context stops the attempt.
RepairNext ==
    /\ pc \in {"repair", "repairing"}
    /\ IF left > 0
       THEN /\ left' = left - 1
            /\ phase' = "repair"
            /\ IF status = "resolving" \/ "resolving" \in validTransitions[status]
               THEN status' = "resolving" /\ pc' = "ask" /\ UNCHANGED err
               ELSE /\ UNCHANGED status
                    /\ pc' = IF ctxDone THEN "judge" ELSE "fallback"
                    /\ err' = "transition"
       ELSE /\ UNCHANGED <<left, status, phase>>
            /\ IF pc = "repairing" /\ ctxDone THEN Judge(err) ELSE Goto("fallback")
    /\ UNCHANGED <<order, method, tried, counts, outcome, env, history>>

\* Mutant: a candidate the server could not resolve is put back.
AskSourceForever ==
    /\ pc = "ask"
    /\ left' = left + 1 /\ Goto("repairing")
    /\ UNCHANGED <<status, order, method, tried, counts, outcome, env, history>>

\* attemptDebridRepairSource: the server resolves the candidate, or fails to, or
\* names another file (ApplyDebridRepairSource refuses it).
AskSource ==
    /\ pc = "ask"
    /\ \/ UNCHANGED status /\ IF ctxDone THEN Judge("ctx") ELSE Goto("repairing")
       \/ UNCHANGED status /\ Goto("repairing")
       \/ /\ status' = Transition(status, "downloading")
          /\ IF status = "resolving" THEN Goto("download")
             ELSE /\ pc' = IF ctxDone THEN "judge" ELSE "fallback"
                  /\ err' = "transition" /\ UNCHANGED phase
    /\ UNCHANGED <<choice, counts, outcome, env, history>>

\* Mutant: the method that failed is not marked as tried.
FallbackUnmarked ==
    /\ pc = "fallback"
    /\ IF Len(order) > 1 /\ Untried(tried) # {}
       THEN status' = "resolving" /\ pc' = "resolve" /\ phase' = "fallback" /\ UNCHANGED err
       ELSE UNCHANGED <<status, phase, err>> /\ pc' = "judge"
    /\ UNCHANGED <<choice, counts, outcome, env, history>>

\* tryFallback, and the way into attemptFallback.
Fallback ==
    /\ pc = "fallback"
    /\ tried' = IF Len(order) > 1 THEN tried \cup {method} ELSE tried
    /\ IF /\ Len(order) > 1 /\ Untried(tried') # {}
          /\ status = "resolving" \/ "resolving" \in validTransitions[status]
       THEN status' = "resolving" /\ pc' = "resolve" /\ phase' = "fallback" /\ UNCHANGED err
       ELSE UNCHANGED <<status, phase, err>> /\ pc' = "judge"
    /\ UNCHANGED <<order, method, left, counts, outcome, env, history>>

-----------------------------------------------------------------------------
\* The retry loop comes round again, with the task in status s.
Retry(s) == pc' = "attempt" /\ attempt' = attempt + 1 /\ status' = s /\ UNCHANGED outcome

\* fail, failDamaged and failStorage on a task in status s: the message says which.
\* A download that unwinds because of a shutdown is left as it is.
Fail(s, message) ==
    /\ pc' = "done"
    /\ UNCHANGED attempt
    /\ IF shuttingDown /\ ctxDone
       THEN outcome' = "interrupted" /\ status' = s
       ELSE outcome' = message /\ status' = Transition(s, "failed")

\* A storage fault is retried once, a corrupt result until the attempts are used up.
OnStorage(s) == /\ storageAttempt' = storageAttempt + 1
                /\ IF storageAttempt' < maxStorageAttempts THEN Retry(s)
                   ELSE Fail(s, "storage")

\* Mutant: off by one.
OnIntegrityEarly(s, e) == /\ UNCHANGED storageAttempt
                          /\ corruptions' = corruptions + 1
                          /\ IF e # "conflict" /\ attempt + 1 < maxIntegrityAttempts THEN Retry(s)
                             ELSE Fail(s, "damaged")

OnIntegrity(s, e) == /\ UNCHANGED storageAttempt
                     /\ corruptions' = corruptions + 1
                     /\ IF e # "conflict" /\ attempt < maxIntegrityAttempts THEN Retry(s)
                        ELSE Fail(s, "damaged")

PauseForVPN == /\ UNCHANGED storageAttempt
               /\ IF "cancelled" \in validTransitions[status]
                  THEN /\ status' = "cancelled" /\ outcome' = "paused" /\ pc' = "done"
                       /\ UNCHANGED attempt
                  ELSE Fail(status, "error")

\* processTask, on the error of an attempt.
JudgeError ==
    /\ pc = "judge"
    /\ CASE err = "storage" -> OnStorage(status) /\ UNCHANGED corruptions
         [] err \in Integrity -> OnIntegrity(status, err)
         [] err = "vpn" -> PauseForVPN /\ UNCHANGED corruptions
         [] OTHER -> Fail(status, "error") /\ UNCHANGED <<storageAttempt, corruptions>>
    /\ UNCHANGED <<phase, err, choice, env, downloads, lost>>

\* processTask, on a result: the transition and verify.  What verify compares, and
\* with which tolerance, is an outcome here: the result passes, is broken, cannot be
\* read back, or is gone.  A task in "verifying" is out of a cancel's reach.
Verify ==
    /\ pc = "verify"
    /\ IF "verifying" \notin validTransitions[status]
       THEN Fail(status, "error") /\ err' = "transition" /\ UNCHANGED <<storageAttempt, corruptions>>
       ELSE \/ /\ pc' = "finalize" /\ status' = "verifying"
               /\ UNCHANGED <<err, counts, outcome, corruptions>>
            \/ OnIntegrity("verifying", "corrupt") /\ err' = "corrupt"
            \/ OnStorage("verifying") /\ err' = "storage" /\ UNCHANGED corruptions
            \/ Fail("verifying", "error") /\ err' = "plain" /\ UNCHANGED <<storageAttempt, corruptions>>
    /\ UNCHANGED <<phase, choice, env, downloads, lost>>

\* finalizeVerified: organize files the result into the library, or fails.
Finalize ==
    /\ pc = "finalize"
    /\ \/ Fail(Transition(status, "organizing"), "error")
       \/ /\ status' = Transition(Transition(status, "organizing"), "completed")
          /\ outcome' = "completed" /\ pc' = "done" /\ UNCHANGED attempt
    /\ UNCHANGED <<phase, err, choice, storageAttempt, env, history>>

-----------------------------------------------------------------------------
\* CancelTask and PauseTask end the context, then move the status.
StopCancel == /\ stop = "no" /\ pc # "done"
              /\ stop' = "cancelling" /\ ctxDone' = TRUE
              /\ UNCHANGED <<status, control, choice, counts, outcome, shuttingDown, history>>

StopStatus == /\ stop = "cancelling"
              /\ stop' = "stopped" /\ status' = Transition(status, "cancelled")
              /\ UNCHANGED <<control, choice, counts, outcome, ctxDone, shuttingDown, history>>

\* Shutdown raises its flag, then ends the contexts of the running downloads.
ShutdownFlag == /\ ~shuttingDown /\ pc # "done"
                /\ shuttingDown' = TRUE
                /\ UNCHANGED <<status, control, choice, counts, outcome, ctxDone, stop, history>>

ShutdownCancel == /\ shuttingDown /\ ~ctxDone
                  /\ ctxDone' = TRUE
                  /\ UNCHANGED <<status, control, choice, counts, outcome, stop, shuttingDown, history>>

\* The goroutine has returned and the callers are done.
Done == pc = "done" /\ stop # "cancelling" /\ (shuttingDown => ctxDone) /\ UNCHANGED vars

Run == \/ Attempt \/ ResolveMethod \/ StartDownload \/ Download
       \/ RepairNext \/ AskSource \/ Fallback
       \/ JudgeError \/ Verify \/ Finalize

Next == Run \/ StopCancel \/ StopStatus \/ ShutdownFlag \/ ShutdownCancel \/ Done

\* Fairness: the goroutine runs; every downloader and every call it waits for comes
\* back, with a result or an error.
Spec == Init /\ [][Next]_vars /\ WF_vars(Run)

-----------------------------------------------------------------------------
\* attemptDownload (manager.go:718): once the VPN tunnel was lost during the torrent,
\* this run never downloads by torrent again, not in a fallback and not when a
\* fallback's result is corrupt and the attempt is repeated.
TorrentStopsAtTunnel ==
    [][lost # 0 /\ downloads' # downloads => method # "torrent"]_vars

\* attemptDownload, pauseForVPN (manager.go:722-734, 1280-1286): an attempt that lost
\* the tunnel and gets no result by any other method ends the run paused, with its
\* partial kept, whatever the other methods died of.  Only a user who stopped the
\* task meanwhile changes that.
TunnelLossIsResumable ==
    [][pc = "judge" /\ pc' # "judge" /\ lost = attempt /\ stop = "no" => outcome' = "paused"]_vars

\* processTask: the downloads of one run are bounded, however the failures of methods,
\* candidates, storage and integrity mix: each attempt runs one first choice, each
\* method is left once for a fallback and each candidate is used once.
DownloadsBounded ==
    /\ downloads <= attempt + Cardinality(tried) + (Sources - left)
    /\ attempt <= maxIntegrityAttempts + maxStorageAttempts - 1

\* The goroutine returns: no mix of errors keeps the retry loop going.
RunEnds == <>(pc = "done")

\* processTask, fail (manager.go:561, 588-625, 676, 1239): a run that is not interrupted
\* ends in a terminal status, and in the verdict it earned, whatever the user does
\* meanwhile.  It does not fail only because the daemon is stopping.  It is called
\* damaged only after as many attempts as a release is entitled to, all of them spent
\* on corrupt results but for the one a storage fault may take.  And a transition of
\* its own is refused in one case only, unless the user stopped the task: when the
\* attempt before ran out of debrid candidates, which leaves the task "resolving".
VerdictIsEarned ==
    /\ outcome \notin {"running", "interrupted"} => status \in Terminal
    /\ outcome \in {"error", "damaged", "storage"} /\ err = "ctx" => stop # "no"
    /\ outcome = "damaged" /\ err # "conflict" =>
         /\ corruptions + storageAttempt >= maxIntegrityAttempts
         /\ storageAttempt < maxStorageAttempts
    /\ outcome = "error" /\ err = "transition" /\ stop = "no" =>
         attempt > 1 /\ corruptions > 0 /\ method = "debrid" /\ left < Sources
=============================================================================
