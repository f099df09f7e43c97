------------------------------- MODULE Probes -------------------------------
(***************************************************************************)
(* A running container's probes (pod_manager.rs check_pod_status,          *)
(* deadlines.rs, health.rs): a pass reads the container's state, runs the  *)
(* probes that are due, one call after the other, kills and makes again    *)
(* what failed often enough, and says when it must look again.  Nothing    *)
(* else brings the pass back but the container's exit.                     *)
(***************************************************************************)
EXTENDS Naturals

CONSTANTS Period, Delay,    \* periodSeconds and initialDelaySeconds, by kind
          Threshold,        \* failureThreshold, by kind
          StartTime,        \* how long the application takes to come up
          HoldOff,          \* the crash-loop back-off (CrashLoop.tla has its growth)
          MaxMishaps,       \* bound: what goes wrong, in the application or in a call
          MaxFalls          \* bound: deaths of the kubelet

Kinds == {"startup", "liveness", "readiness"}

ASSUME ProbesAssumption ==
    /\ Period \in [Kinds -> Nat \ {0}] /\ Delay \in [Kinds -> Nat] /\ Threshold \in [Kinds -> Nat \ {0}]
    /\ StartTime \in Nat /\ HoldOff \in Nat /\ MaxMishaps \in Nat /\ MaxFalls \in Nat

VARIABLES pbApp,        \* the container: what it does, or that it ended or is not there
          pbAge,        \* time since it started
          pbSpec,       \* its Pod: restartPolicy, whether it has a readinessProbe
          pbAt,         \* the pass: "idle", or the probe it is at
          pbStart,      \* started: this kubelet saw the start (FALSE: adopted)
          pbRuns,       \* probes: time since each last ran for this start, a period at most
          pbPassed,     \* startup_passed
          pbFails,      \* liveness_failures
          pbReady,      \* ready
          pbOver,       \* terminated for good
          pbDue,        \* the next look; Never: only an event
          pbExit,       \* an exit to be looked at
          pbWait,       \* the back-off left
          pbHist,       \* history: see NewHist
          pbOdds        \* mishaps and falls so far

pbState == <<pbApp, pbAge, pbSpec, pbAt, pbStart, pbRuns, pbPassed, pbFails, pbReady, pbOver>>
pbVars == <<pbApp, pbAge, pbSpec, pbAt, pbStart, pbRuns, pbPassed, pbFails, pbReady, pbOver, pbDue, pbExit,
            pbWait, pbHist, pbOdds>>

Largest(S) == CHOOSE n \in S : \A m \in S : m <= n
Spans == {Period[k] : k \in Kinds} \cup {Delay[k] : k \in Kinds} \cup {StartTime, HoldOff, 1}
Never == Largest(Spans) + 1
Recheck == 1

\* row: failures in a row, by kind, of this start as this kubelet saw it;
\* ready: what the readiness probe last said of it;
\* unjust: one was killed for less than its threshold;
\* removed: it was taken away and not made again;
\* early: restart_container then gave up before it would have made it.
NewHist(h) == [h EXCEPT !.row = [k \in Kinds |-> 0], !.ready = FALSE, !.removed = FALSE, !.early = FALSE]
NoRuns == Period

Mishap == pbOdds.mishaps < MaxMishaps /\ pbOdds' = [pbOdds EXCEPT !.mishaps = @ + 1]
Smooth == UNCHANGED pbOdds
Alive == pbApp \in {"up", "unready"}
Least(a, b) == IF a < b THEN a ELSE b

-----------------------------------------------------------------------------
(* Deadlines. *)

DueIn(n) == pbDue' = Least(pbDue, n)

\* How long until the kind's probe is due: its initial delay from the start
\* (one adopted has none), and a period from its last run.
UntilDue(k) ==
    IF pbStart /\ pbAge < Delay[k] THEN Delay[k] - pbAge ELSE Period[k] - pbRuns[k]
ProbeDue(k) == UntilDue(k) = 0
\* Faulty: what is not due yet asks for no look.
NotYetSilent(k) == ~ ProbeDue(k) /\ UNCHANGED pbDue
NotYet(k) == ~ ProbeDue(k) /\ DueIn(UntilDue(k))
Probed(k) == ProbeDue(k) /\ pbRuns' = [pbRuns EXCEPT ![k] = 0] /\ DueIn(Period[k])

\* run_probe: what the application answers, or a failure on the way.
Passes(k) == Smooth /\ (IF k = "readiness" THEN pbApp = "up" ELSE Alive)
Misses(k) == (Smooth /\ ~ (IF k = "readiness" THEN pbApp = "up" ELSE Alive)) \/ (Mishap /\ Alive)
Counted(k) == [pbHist EXCEPT !.row[k] = Least(@ + 1, Threshold[k])]

-----------------------------------------------------------------------------
(* restart_container: stop, remove, create, start. *)

\* Faulty: the failures of the last start count for the next.
StartAgainCounting ==
    /\ pbApp' = (IF StartTime = 0 THEN "up" ELSE "starting") /\ pbAge' = 0 /\ pbStart' = TRUE /\ pbRuns' = NoRuns
    /\ pbReady' = ~ pbSpec.readiness
    /\ UNCHANGED pbFails

\* Made again: a new start, whose probes begin again from their initial
\* delays, except that startup_passed is as it was.
StartAgain ==
    /\ pbApp' = (IF StartTime = 0 THEN "up" ELSE "starting") /\ pbAge' = 0 /\ pbStart' = TRUE /\ pbRuns' = NoRuns
    /\ pbReady' = ~ pbSpec.readiness
    /\ pbFails' = 0

Leftovers == IF pbApp = "gone" THEN {"gone"} ELSE {pbApp, "exited", "gone"}
Removed(h, early) == [h EXCEPT !.removed = pbApp' \in {"exited", "gone"}, !.early = early]

\* Faulty: a container that could not be made again is ready as it was.
NotMadeReady(h, keeps) ==
    /\ pbApp' \in Leftovers /\ pbFails' = 0 /\ pbHist' = Removed(h, FALSE)
    /\ UNCHANGED <<pbAge, pbStart, pbRuns, pbReady>>

\* Taken away, if the stop and the removal were not refused, and not made
\* again: looked at again shortly.  It is said not to be ready, unless what
\* failed comes before the making (its sandbox, its volumes, its token) and
\* the caller keeps what was said last.
NotMade(h, keeps) ==
    /\ pbApp' \in Leftovers /\ pbFails' = 0
    /\ \E early \in BOOLEAN : pbReady' = (early /\ keeps /\ pbReady) /\ pbHist' = Removed(h, early)
    /\ UNCHANGED <<pbAge, pbStart, pbRuns>>

\* A probe's threshold: the container is killed for it.
Kill(k, over) ==
    LET h == [Counted(k) EXCEPT !.unjust = @ \/ Counted(k).row[k] < Threshold[k]] IN
    \/ StartAgain /\ Misses(k) /\ pbAt' = "idle" /\ pbHist' = NewHist(h) /\ DueIn(Period[k])
    \/ NotMade(h, k = "liveness") /\ Mishap /\ pbAt' = over /\ DueIn(Recheck)

\* Made again because it ended: the back-off begins, and ends with a look.
Remake ==
    /\ pbWait' = HoldOff /\ pbAt' = "idle"
    /\ \/ StartAgain /\ Smooth /\ pbHist' = NewHist(pbHist) /\ pbDue' = HoldOff
       \/ NotMade(pbHist, TRUE) /\ Mishap /\ pbDue' = Least(HoldOff, Recheck)

-----------------------------------------------------------------------------
(* check_pod_status *)

Ended == pbSpec.policy = "Never"

\* A pass begins, when its deadline has come or the container exited, and reads
\* the container's state.
Status ==
    /\ pbAt = "idle" /\ (pbDue = 0 \/ pbExit) /\ pbExit' = FALSE
    /\ UNCHANGED <<pbSpec, pbPassed>>
    /\ \/ /\ pbOver /\ pbDue' = Never /\ Smooth
          /\ UNCHANGED <<pbApp, pbAge, pbAt, pbStart, pbRuns, pbFails, pbReady, pbOver, pbWait, pbHist>>
       \* Running: the probes.
       \/ /\ ~ pbOver /\ pbApp \notin {"exited", "gone"} /\ pbAt' = "startup" /\ pbDue' = Never /\ Smooth
          /\ UNCHANGED <<pbApp, pbAge, pbStart, pbRuns, pbFails, pbReady, pbOver, pbWait, pbHist>>
       \* No answer.
       \/ /\ ~ pbOver /\ Mishap /\ pbReady' = FALSE /\ pbDue' = Recheck
          /\ UNCHANGED <<pbApp, pbAge, pbAt, pbStart, pbRuns, pbFails, pbOver, pbWait, pbHist>>
       \* Exited, or its record pruned: for good, after its back-off, or now.
       \/ /\ ~ pbOver /\ pbApp \in {"exited", "gone"} /\ Ended
          /\ pbOver' = TRUE /\ pbReady' = FALSE /\ pbDue' = Never /\ Smooth
          /\ UNCHANGED <<pbApp, pbAge, pbAt, pbStart, pbRuns, pbFails, pbWait, pbHist>>
       \/ /\ ~ pbOver /\ pbApp \in {"exited", "gone"} /\ ~ Ended /\ pbWait > 0
          /\ pbReady' = FALSE /\ pbDue' = pbWait /\ Smooth
          /\ UNCHANGED <<pbApp, pbAge, pbAt, pbStart, pbRuns, pbFails, pbOver, pbWait, pbHist>>
       \/ /\ ~ pbOver /\ pbApp \in {"exited", "gone"} /\ ~ Ended /\ pbWait = 0
          /\ Remake /\ UNCHANGED pbOver

\* The startup probe: until it has passed, nothing else is asked and the
\* container is not ready.
StartupProbe ==
    /\ pbAt = "startup" /\ UNCHANGED <<pbSpec, pbOver, pbExit, pbWait>>
    /\ \/ /\ pbPassed /\ pbAt' = "liveness" /\ Smooth
          /\ UNCHANGED <<pbApp, pbAge, pbStart, pbRuns, pbPassed, pbFails, pbReady, pbDue, pbHist>>
       \/ /\ ~ pbPassed /\ NotYet("startup") /\ pbAt' = "idle" /\ pbReady' = FALSE /\ Smooth
          /\ UNCHANGED <<pbApp, pbAge, pbStart, pbRuns, pbPassed, pbFails, pbHist>>
       \/ /\ ~ pbPassed /\ Probed("startup") /\ Passes("startup")
          /\ pbAt' = "liveness" /\ pbPassed' = TRUE /\ pbFails' = 0
          /\ pbHist' = [pbHist EXCEPT !.row["startup"] = 0]
          /\ UNCHANGED <<pbApp, pbAge, pbStart, pbReady>>
       \/ /\ ~ pbPassed /\ Probed("startup") /\ Misses("startup") /\ pbFails + 1 < Threshold["startup"]
          /\ pbAt' = "idle" /\ pbFails' = pbFails + 1 /\ pbReady' = FALSE /\ pbHist' = Counted("startup")
          /\ UNCHANGED <<pbApp, pbAge, pbStart, pbPassed>>
       \/ /\ ~ pbPassed /\ ProbeDue("startup") /\ pbFails + 1 >= Threshold["startup"]
          /\ Kill("startup", "idle") /\ UNCHANGED pbPassed

\* The liveness probe.
LivenessProbe ==
    /\ pbAt = "liveness" /\ UNCHANGED <<pbSpec, pbPassed, pbOver, pbExit, pbWait>>
    /\ \/ /\ NotYet("liveness") /\ pbAt' = "readiness" /\ Smooth
          /\ UNCHANGED <<pbApp, pbAge, pbStart, pbRuns, pbFails, pbReady, pbHist>>
       \/ /\ Probed("liveness") /\ Passes("liveness") /\ pbAt' = "readiness" /\ pbFails' = 0
          /\ pbHist' = [pbHist EXCEPT !.row["liveness"] = 0]
          /\ UNCHANGED <<pbApp, pbAge, pbStart, pbReady>>
       \/ /\ Probed("liveness") /\ Misses("liveness") /\ pbFails + 1 < Threshold["liveness"]
          /\ pbAt' = "readiness" /\ pbFails' = pbFails + 1
          /\ pbHist' = [pbHist EXCEPT !.row["liveness"] = Least(@ + 1, Threshold["liveness"])]
          /\ UNCHANGED <<pbApp, pbAge, pbStart, pbReady>>
       \/ /\ ProbeDue("liveness") /\ pbFails + 1 >= Threshold["liveness"]
          /\ Kill("liveness", "readiness")

\* The readiness probe: what it says, or said less than a period ago.
ReadinessProbe ==
    /\ pbAt = "readiness" /\ pbAt' = "idle"
    /\ UNCHANGED <<pbApp, pbAge, pbSpec, pbStart, pbPassed, pbFails, pbOver, pbExit, pbWait>>
    /\ \/ ~ pbSpec.readiness /\ pbReady' = TRUE /\ Smooth /\ UNCHANGED <<pbRuns, pbDue, pbHist>>
       \/ /\ pbSpec.readiness /\ NotYet("readiness") /\ Smooth
          /\ pbReady' = (pbReady /\ ~ (pbStart /\ pbAge < Delay["readiness"])) /\ UNCHANGED <<pbRuns, pbHist>>
       \/ /\ pbSpec.readiness /\ Probed("readiness") /\ Passes("readiness")
          /\ pbReady' = TRUE /\ pbHist' = [pbHist EXCEPT !.ready = TRUE]
       \/ /\ pbSpec.readiness /\ Probed("readiness") /\ Misses("readiness")
          /\ pbReady' = FALSE /\ pbHist' = [pbHist EXCEPT !.ready = FALSE]

-----------------------------------------------------------------------------
(* The application, the clock, the kubelet's life. *)

Older(n, most) == IF n < most THEN n + 1 ELSE n
Sooner(n) == IF n = 0 \/ n = Never THEN n ELSE n - 1

TimePasses ==
    /\ pbAge' = Older(pbAge, Never)
    /\ pbApp' = (IF pbApp = "starting" /\ pbAge + 1 >= StartTime THEN "up" ELSE pbApp)
    /\ pbRuns' = [k \in Kinds |-> Older(pbRuns[k], Period[k])]
    /\ pbDue' = Sooner(pbDue) /\ pbWait' = Sooner(pbWait)
    /\ UNCHANGED <<pbSpec, pbAt, pbStart, pbPassed, pbFails, pbReady, pbOver, pbExit, pbHist, pbOdds>>

\* It hangs, is busy or not, ends, and the runtime drops the record.
AppChanges ==
    /\ Mishap /\ pbApp' \in {"up", "unready", "hung", "exited", "gone"} \ {pbApp}
    /\ CASE Alive -> pbApp' # "gone"
         [] pbApp = "exited" -> pbApp' = "gone"
         [] OTHER -> pbApp # "gone" /\ pbApp' \in {"hung", "exited"}
    /\ pbExit' = (pbExit \/ pbApp' = "exited")
    /\ UNCHANGED <<pbAge, pbSpec, pbAt, pbStart, pbRuns, pbPassed, pbFails, pbReady, pbOver, pbDue, pbWait, pbHist>>

\* recover_state: a kubelet that starts again adopts the container with
\* nothing known of its probes; its back-off is on disk.
Adopt ==
    /\ pbOdds.falls < MaxFalls /\ pbOdds' = [pbOdds EXCEPT !.falls = @ + 1]
    /\ pbAt' = "idle" /\ pbStart' = FALSE /\ pbRuns' = NoRuns /\ pbPassed' = FALSE /\ pbFails' = 0
    /\ pbReady' = FALSE /\ pbOver' = FALSE /\ pbDue' = 0 /\ pbExit' = FALSE
    /\ pbHist' = NewHist(pbHist)
    /\ UNCHANGED <<pbApp, pbAge, pbSpec, pbWait>>

PbInit ==
    /\ pbSpec \in [policy : {"Always", "Never"}, readiness : BOOLEAN]
    /\ pbApp = "starting" /\ pbAge = 0 /\ pbStart = TRUE
    /\ pbAt = "idle" /\ pbRuns = NoRuns /\ pbPassed = FALSE /\ pbFails = 0
    /\ pbReady = ~ pbSpec.readiness /\ pbOver = FALSE
    /\ pbDue = Recheck /\ pbExit = FALSE /\ pbWait = 0
    /\ pbHist = [row |-> [k \in Kinds |-> 0], ready |-> FALSE, unjust |-> FALSE, removed |-> FALSE,
               early |-> FALSE]
    /\ pbOdds = [mishaps |-> 0, falls |-> 0]

ProbePass == Status \/ StartupProbe \/ LivenessProbe \/ ReadinessProbe
PbNext == ProbePass \/ TimePasses \/ AppChanges \/ Adopt

\* Time passes, and a pass begins when its deadline has come and goes on.
PbSpec == PbInit /\ [][PbNext]_pbVars /\ WF_pbVars(TimePasses) /\ WF_pbVars(ProbePass)

-----------------------------------------------------------------------------
PbTypeOK ==
    /\ pbApp \in {"starting", "up", "unready", "hung", "exited", "gone"} /\ pbAge \in 0..Never
    /\ pbAt \in {"idle"} \cup Kinds /\ pbStart \in BOOLEAN
    /\ \A k \in Kinds : pbRuns[k] \in 0..Period[k]
    /\ pbFails \in 0..Largest({Threshold[k] : k \in Kinds}) /\ pbReady \in BOOLEAN
    /\ pbDue \in 0..Never /\ pbWait \in 0..HoldOff
    \* Between passes there is a next look, or nothing left to look at.
    /\ pbAt = "idle" /\ pbDue = Never => pbOver

\* A container is killed by a probe only after that probe failed its threshold
\* in a row in this start of it, as this kubelet saw it: failures of the start
\* before, of the other probe over the same counter, or that another kubelet
\* counted before it was adopted, do not count.
KillsAreEarned == ~ pbHist.unjust

\* A container said to be ready is one whose readiness probe last passed, in
\* this start of it, and one taken away and not made again is not said to be:
\* but where restart_container gave up before the making it stays ready
\* (4759-4794, 4388), until a look that is due at once.  One with no such
\* probe that could not be made again is said to be ready for one pass.
ReadyIsProbed ==
    pbAt = "idle" /\ pbReady /\ pbSpec.readiness =>
        pbHist.ready /\ (pbHist.removed => pbHist.early /\ pbDue <= Recheck)

ProbesKept == KillsAreEarned /\ ReadyIsProbed

\* A container that hangs is made again, one that ended too where its policy
\* says so, and one that serves is said to be ready.
Probing ==
    \/ pbOver
    \/ pbApp = "up" /\ pbReady
    \/ pbApp = "unready" /\ (pbReady => ~ pbSpec.readiness)
=============================================================================
