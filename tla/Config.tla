------------------------------- MODULE Config -------------------------------
(***************************************************************************)
(* The runtime configuration and the files that carry it over a restart:   *)
(* the intercept toggle (internal/intercept), the fallback toggle and      *)
(* model (internal/fallback), the rules (internal/rules), the handlers     *)
(* that change them (internal/api), internal/persist, and the start and    *)
(* the shutdown of the two servers in main.go.  Each setting has a lock or *)
(* an atomic of its own, none of which is held while its file is written,  *)
(* so a call is a sequence of steps between which other calls, a shutdown  *)
(* or a crash may come.  How the pages learn of a change is not modelled   *)
(* here: an event stream is but a connection that stays open.              *)
(***************************************************************************)
EXTENDS Naturals, Sequences, FiniteSets

CONSTANTS Operator,     \* concurrent admin calls
          Model, DefaultModel,      \* fallback models
          RuleSet, NoRules,         \* lists of rules that compile
          MaxFailed,    \* bound of the run: files whose last write has failed
          None

ASSUME ConfigAssumption ==
    DefaultModel \in Model /\ NoRules \in RuleSet /\ MaxFailed \in Nat

File == {"intercept", "fallback", "rules"}

Field == {"intercept", "enabled", "model", "rules"}

Value(f) == CASE f \in {"intercept", "enabled"} -> {"on", "off"}
              [] f = "model"                    -> Model
              [] f = "rules"                    -> RuleSet

Config == {c \in [Field -> {"on", "off"} \cup Model \cup RuleSet] :
              \A f \in Field : c[f] \in Value(f)}

FieldsOf(file) == CASE file = "intercept" -> {"intercept"}
                    [] file = "fallback"  -> {"enabled", "model"}
                    [] file = "rules"     -> {"rules"}

\* What a file may hold.
Content(file) == {c \in [FieldsOf(file) -> {"on", "off"} \cup Model \cup RuleSet] :
                     \A f \in FieldsOf(file) : c[f] \in Value(f)}

ASSUME NoneAssumption == \A file \in File : None \notin Content(file)

VARIABLES stage,    \* where main is: "serving", "draining" in the Shutdown of the
                    \* proxy, "closing" in that of the UI, "exited", "crashed"
          expired,  \* the deadline both share has passed
          proxied,  \* the proxy's Shutdown waits for a request in flight
          page,     \* a page has its event stream open
          mem,      \* the configuration in memory
          disk,     \* disk[file]: its fields, None when there is no file
          call,     \* call[o]: the admin call o is executing
          failed,   \* files whose last write failed
          acked,    \* history: the configuration the finished calls asked for
          wanted    \* history: the same, with the call in progress

process == <<stage, expired, proxied>>
files == <<disk, failed>>
asked == <<acked, wanted>>
vars == <<process, page, mem, files, call, asked>>

\* New() of the three packages.
Default == [f \in Field |-> CASE f \in {"intercept", "enabled"} -> "off"
                              [] f = "model" -> DefaultModel
                              [] f = "rules" -> NoRules]

\* An idle operator; otherwise sets holds the assignments of the request that
\* are left, left the fields save has still to read and data the values it has
\* read so far.
Idle == [step |-> "idle", file |-> None, sets |-> << >>, left |-> << >>, data |-> << >>]

Init ==
    /\ stage = "serving" /\ expired = FALSE /\ proxied = FALSE /\ page = FALSE
    /\ mem = Default
    /\ disk = [file \in File |-> None]
    /\ call = [o \in Operator |-> Idle]
    /\ failed = {}
    /\ acked = Default
    /\ wanted = Default

-----------------------------------------------------------------------------
Set(f, v) == [field |-> f, value |-> v]

\* POST /admin/intercept, POST /admin/fallback with and without a model,
\* PUT /admin/rules with rules that compile: the assignments each makes,
\* those of the second kind being `both'.
RequestWith(both) ==
    [file : {"intercept"}, sets : {<<Set("intercept", v)>> : v \in Value("intercept")}]
    \cup
    [file : {"fallback"},
     sets : {<<Set("enabled", v)>> : v \in Value("enabled")}
            \cup both]
    \cup
    [file : {"rules"}, sets : {<<Set("rules", rs)>> : rs \in RuleSet}]

\* Mutant of Request: handleFallback sets the model before the toggle.
RequestModelFirst ==
    RequestWith({<<Set("model", m), Set("enabled", v)>> : v \in Value("enabled"), m \in Model})

Request ==
    RequestWith({<<Set("enabled", v), Set("model", m)>> : v \in Value("enabled"), m \in Model})

\* A configuration after the assignments.
Assigned(c, sets) ==
    [f \in Field |->
        IF \E i \in 1 .. Len(sets) : sets[i].field = f
        THEN sets[CHOOSE i \in 1 .. Len(sets) : sets[i].field = f].value
        ELSE c[f]]

\* The order in which save reads the fields of a file: that of the fallback
\* reads the model under f.mu and then the toggle.
SaveOrder(file) == IF file = "fallback" THEN <<"model", "enabled">> ELSE <<"intercept">>

Up == stage \in {"serving", "draining", "closing"}

\* The UI server takes connections until its own Shutdown.
Accepting == stage \in {"serving", "draining"}

At(o, step) == Up /\ call[o].step = step

Begin(o, q) ==
    /\ At(o, "idle") /\ Accepting
    /\ call' = [call EXCEPT ![o] =
                    [step |-> "assign", file |-> q.file, sets |-> q.sets,
                     left |-> << >>, data |-> << >>]]
    /\ wanted' = Assigned(wanted, q.sets)
    /\ UNCHANGED <<process, page, mem, files, acked>>

\* Set, SetModel or Replace: the next assignment.  Replace takes what it
\* will write in the same critical section.
Assign(o) ==
    /\ At(o, "assign")
    /\ LET next == Head(call[o].sets)
           c    == [call[o] EXCEPT !.sets = Tail(@)]
       IN  /\ mem' = [mem EXCEPT ![next.field] = next.value]
           /\ call' = [call EXCEPT ![o] =
                  IF c.file = "rules"
                  THEN [c EXCEPT !.step = "write",
                                 !.data = [f \in {"rules"} |-> next.value]]
                  ELSE [c EXCEPT !.step = "read", !.left = SaveOrder(c.file)]]
    /\ UNCHANGED <<process, page, files, asked>>

\* save reads one field; after the last one the data is what is written.
Save(o) ==
    /\ At(o, "read")
    /\ LET f == Head(call[o].left)
       IN  call' = [call EXCEPT
               ![o].data = [g \in (DOMAIN @) \cup {f} |-> IF g = f THEN mem[f] ELSE @[g]],
               ![o].left = Tail(@),
               ![o].step = IF Len(call[o].left) = 1 THEN "write" ELSE "read"]
    /\ UNCHANGED <<process, page, mem, files, asked>>

\* What follows the write: the next assignment, or the answer.
AfterWrite(c) == [c EXCEPT !.step = IF c.sets # << >> THEN "assign" ELSE "answer"]

\* persist.WriteJSON: the rename is the step that matters.
Write(o) ==
    /\ At(o, "write")
    /\ disk' = [disk EXCEPT ![call[o].file] = call[o].data]
    /\ failed' = failed \ {call[o].file}
    /\ call' = [call EXCEPT ![o] = AfterWrite(@)]
    /\ UNCHANGED <<process, page, mem, asked>>

\* persist.WriteJSON fails: the callers log it and go on.
WriteFails(o) ==
    /\ At(o, "write")
    /\ failed' = failed \cup {call[o].file} /\ Cardinality(failed') <= MaxFailed
    /\ call' = [call EXCEPT ![o] = AfterWrite(@)]
    /\ UNCHANGED <<process, page, mem, disk, asked>>

\* The handler answers with the state it reads, broadcasts it and returns.
Answer(o) ==
    /\ At(o, "answer") /\ acked' = wanted
    /\ call' = [call EXCEPT ![o] = Idle]
    /\ UNCHANGED <<process, page, mem, files, wanted>>

-----------------------------------------------------------------------------
\* GET /events: a page connects and holds its stream open.
Connect ==
    /\ ~page /\ Accepting /\ page' = TRUE
    /\ UNCHANGED <<process, mem, files, call, asked>>

Disconnect ==
    /\ page /\ page' = FALSE
    /\ UNCHANGED <<process, mem, files, call, asked>>

\* main, 140-146: SIGINT or SIGTERM; the proxy accepts nothing any more.
Signal ==
    /\ stage = "serving" /\ stage' = "draining" /\ proxied' \in BOOLEAN
    /\ UNCHANGED <<expired, page, mem, files, call, asked>>

\* The proxied request in flight ends.
Answered ==
    /\ proxied /\ proxied' = FALSE
    /\ UNCHANGED <<stage, expired, page, mem, files, call, asked>>

\* Mutant of Expire: context.Background() has no deadline.
ExpireNever == FALSE /\ UNCHANGED vars

\* Five seconds after the signal.
Expire ==
    /\ stage \in {"draining", "closing"} /\ ~expired /\ expired' = TRUE
    /\ UNCHANGED <<stage, proxied, page, mem, files, call, asked>>

\* proxySrv.Shutdown returns: the proxy is idle, or the deadline has passed.
ProxyDrained ==
    /\ stage = "draining" /\ (~proxied \/ expired) /\ stage' = "closing"
    /\ proxied' = FALSE
    /\ UNCHANGED <<expired, page, mem, files, call, asked>>

\* The process is gone: only the files are as they were.
Dies(how) ==
    /\ stage' = how /\ proxied' = FALSE /\ page' = FALSE
    /\ mem' = Default
    /\ call' = [o \in Operator |-> Idle]
    /\ UNCHANGED <<expired, files, asked>>

\* Mutant of Exit: the Shutdown of the UI is not waited for.
ExitAtOnce == stage = "closing" /\ Dies("exited")

\* uiSrv.Shutdown returns, and main with it: no connection of the UI is
\* active, and an event stream always is, or the deadline has passed.
Exit ==
    /\ stage = "closing"
    /\ expired \/ (~page /\ \A o \in Operator : call[o].step = "idle")
    /\ Dies("exited")

\* log.Fatalf, a panic outside of a handler, SIGKILL.
Crash == Up /\ Dies("crashed")

\* What the next start makes of the files: main.go, Fallback.Load and
\* Interceptor.Load keep the defaults of a file that is missing.
Restored ==
    [f \in Field |->
        LET file == CHOOSE x \in File : f \in FieldsOf(x)
        IN  IF disk[file] = None THEN Default[f] ELSE disk[file][f]]

RestartWith(c) ==
    /\ ~Up /\ stage' = "serving" /\ expired' = FALSE
    /\ mem' = c /\ acked' = c /\ wanted' = c
    /\ failed' = {}
    /\ UNCHANGED <<proxied, page, disk, call>>

\* Mutants of Restart: the toggle is not loaded; a missing file is.
RestartWithoutToggle == RestartWith([Restored EXCEPT !["intercept"] = "off"])

RestartFromNothing ==
    RestartWith([Restored EXCEPT !["model"] = IF disk["fallback"] = None THEN None ELSE @])

Restart == RestartWith(Restored)

Handler(o) == Assign(o) \/ Save(o) \/ Write(o) \/ WriteFails(o) \/ Answer(o)

Next == \/ \E o \in Operator : Handler(o)
        \/ \E o \in Operator, q \in Request : Begin(o, q)
        \/ Connect \/ Disconnect
        \/ Signal \/ Answered \/ Expire \/ ProxyDrained \/ Exit
        \/ Crash \/ Restart

\* Time passes and main goes on; nothing is assumed of clients, pages and
\* handlers.
Fairness == WF_vars(Expire) /\ WF_vars(ProxyDrained) /\ WF_vars(Exit)

Spec == Init /\ [][Next]_vars /\ Fairness
-----------------------------------------------------------------------------
TypeOK ==
    /\ stage \in {"serving", "draining", "closing", "exited", "crashed"}
    /\ {expired, proxied, page} \subseteq BOOLEAN
    /\ {mem, acked, wanted} \subseteq Config
    /\ \A file \in File : disk[file] \in Content(file) \cup {None}
    /\ \A o \in Operator :
           /\ call[o].step \in {"idle", "assign", "read", "write", "answer"}
           /\ call[o].file \in File \cup {None}
           /\ Len(call[o].sets) <= 2 /\ Len(call[o].left) <= 2
    /\ failed \subseteq File

Quiet == Up /\ \A o \in Operator : call[o].step = "idle"

Safe(f) == \A file \in failed : f \notin FieldsOf(file)

\* "the whole runtime configuration survives a restart" (main.go:80-81):
\* between two calls a restart would restore exactly what is in force, for
\* every file whose last write succeeded.
SettledSurvives ==
    Quiet => \A f \in Field : Safe(f) => Restored[f] = mem[f]

\* Wherever a crash comes, also between the two saves of one POST
\* /admin/fallback, every field is restored as it was before the call in
\* progress or as the call wants it, and never the new model without the
\* new toggle.
CrashIsOldOrNew ==
    /\ \A f \in Field : Safe(f) => Restored[f] \in {acked[f], wanted[f]}
    /\ (Safe("model") /\ Restored["model"] # acked["model"])
           => Restored["enabled"] = wanted["enabled"]

\* A planned exit that did not run out of time cuts no admin call, also none
\* that came while the proxy was draining: the files hold everything the
\* operator has asked for.
PlannedExitKeepsAll ==
    (stage = "exited" /\ ~expired) =>
        \A f \in Field : Safe(f) => Restored[f] = wanted[f]

\* A signal ends the process, although a proxied stream may run for minutes
\* and an open page never lets go of its event stream.
SignalEnds == stage = "draining" ~> stage \in {"exited", "crashed"}
=============================================================================
