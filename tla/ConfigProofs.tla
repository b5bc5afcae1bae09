---------------------------- MODULE ConfigProofs ----------------------------
(***************************************************************************)
(* For any models and rule lists, and admin calls that follow one another: *)
(* a crash, a shutdown or a restart at any step finds what was asked for.  *)
(* Calls that overlap break this already between two saves of one file.    *)
(***************************************************************************)
EXTENDS Config, SequenceTheorems, TLAPS

\* Calls follow one another.
Alone == \A o, p \in Operator : o = p

LEMMA FileOf ==
    \A f \in Field : \E x \in File : f \in FieldsOf(x) /\ \A y \in File : f \in FieldsOf(y) => y = x
BY DEF File, Field, FieldsOf

\* Each field comes back from the one file that has it.
LEMMA RestoredAt ==
    ASSUME NEW f \in Field, NEW file \in File, f \in FieldsOf(file)
    PROVE  /\ Restored[f] = IF disk[file] = None THEN Default[f] ELSE disk[file][f]
           /\ Restored'[f] = IF disk'[file] = None THEN Default[f] ELSE disk'[file][f]
<1>1. (CHOOSE x \in File : f \in FieldsOf(x)) = file
  <2>1. PICK y : y = (CHOOSE x \in File : f \in FieldsOf(x))
    OBVIOUS
  <2>2. y \in File /\ f \in FieldsOf(y)
    BY <2>1
  <2> QED
    BY <2>1, <2>2, FileOf
<1>2. Restored[f] = IF disk[file] = None THEN Default[f] ELSE disk[file][f]
  <2>1. Restored[f] = LET x == CHOOSE x \in File : f \in FieldsOf(x)
                     IN  IF disk[x] = None THEN Default[f] ELSE disk[x][f]
    BY Zenon DEF Restored
  <2> QED
    BY <1>1, <2>1
<1>3. Restored'[f] = IF disk'[file] = None THEN Default[f] ELSE disk'[file][f]
  <2>1. Restored'[f] = LET x == CHOOSE x \in File : f \in FieldsOf(x)
                     IN  IF disk'[x] = None THEN Default[f] ELSE disk'[x][f]
    BY Zenon DEF Restored
  <2> QED
    BY <1>1, <2>1
<1> QED
  BY <1>2, <1>3

LEMMA Tails ==
    ASSUME NEW a, NEW b
    PROVE  /\ Head(<<a, b>>) = a /\ Tail(<<a, b>>) = <<b>>
           /\ Head(<<a>>) = a /\ Tail(<<a>>) = << >>
OBVIOUS

LEMMA AssignedOne ==
    ASSUME NEW c, NEW f \in Field, NEW v, c = [g \in Field |-> c[g]]
    PROVE  Assigned(c, <<Set(f, v)>>) = [c EXCEPT ![f] = v]
<1>1. PICK s : s = <<Set(f, v)>>
  OBVIOUS
<1>2. Len(s) = 1 /\ s[1].field = f /\ s[1].value = v
  BY <1>1 DEF Set
<1>3. Assigned(c, s) = [g \in Field |-> IF g = f THEN v ELSE c[g]]
  <2>1. ASSUME NEW g \in Field
        PROVE  (\E i \in 1 .. Len(s) : s[i].field = g) <=> g = f
    BY <1>2
  <2>2. (CHOOSE i \in 1 .. Len(s) : s[i].field = f) = 1
    BY <1>2
  <2> QED
    BY <1>2, <2>1, <2>2 DEF Assigned
<1> QED
  BY <1>1, <1>3

LEMMA AssignedTwo ==
    ASSUME NEW c, NEW v, NEW m, c = [g \in Field |-> c[g]]
    PROVE  Assigned(c, <<Set("enabled", v), Set("model", m)>>)
           = [c EXCEPT !["enabled"] = v, !["model"] = m]
<1>1. PICK s : s = <<Set("enabled", v), Set("model", m)>>
  OBVIOUS
<1>2. /\ Len(s) = 2 /\ s[1].field = "enabled" /\ s[1].value = v
      /\ s[2].field = "model" /\ s[2].value = m
  BY <1>1 DEF Set
<1>3. Assigned(c, s) = [g \in Field |-> IF g = "enabled" THEN v
                                        ELSE IF g = "model" THEN m ELSE c[g]]
  <2>1. ASSUME NEW g \in Field
        PROVE  (\E i \in 1 .. Len(s) : s[i].field = g) <=> g \in {"enabled", "model"}
    BY <1>2
  <2>2. (CHOOSE i \in 1 .. Len(s) : s[i].field = "enabled") = 1
    BY <1>2
  <2>3. (CHOOSE i \in 1 .. Len(s) : s[i].field = "model") = 2
    BY <1>2
  <2> QED
    BY <1>2, <2>1, <2>2, <2>3 DEF Assigned
<1> QED
  BY <1>1, <1>3 DEF Field
-----------------------------------------------------------------------------
\* The files give back c, where their last write succeeded.
Kept(c) == \A f \in Field : Safe(f) => Restored[f] = c[f]

\* A call rests when the files hold what is in force, or saves the change
\* from old to new.
Resting(c, steps, sets, now) ==
    c.step \in steps /\ c.sets = sets /\ mem = now /\ Kept(now)

Saving(c, sets, old, new) ==
    c.step \in {"read", "write"} /\ c.sets = sets /\ mem = new /\ Kept(old)

One(c, f, v) ==
    /\ wanted = [acked EXCEPT ![f] = v]
    /\ \/ Resting(c, {"assign"}, <<Set(f, v)>>, acked)
       \/ Saving(c, << >>, acked, wanted)
       \/ Resting(c, {"answer"}, << >>, wanted)

Half(v) == [acked EXCEPT !["enabled"] = v]

Two(c, v, m) ==
    /\ c.file = "fallback"
    /\ wanted = [acked EXCEPT !["enabled"] = v, !["model"] = m]
    /\ \/ Resting(c, {"assign"}, <<Set("enabled", v), Set("model", m)>>, acked)
       \/ Saving(c, <<Set("model", m)>>, acked, Half(v))
       \/ Resting(c, {"assign"}, <<Set("model", m)>>, Half(v))
       \/ Saving(c, << >>, Half(v), wanted)
       \/ Resting(c, {"answer"}, << >>, wanted)

InHand(c) ==
    \/ \E f \in FieldsOf(c.file) : \E v \in Value(f) : One(c, f, v)
    \/ \E v \in Value("enabled"), m \in Value("model") : Two(c, v, m)

\* What is left to read, and what has been read is in force.
Fields(s) == {s[i] : i \in 1 .. Len(s)}

Fetched(c) ==
    /\ c.step = "read" => c.file # "rules"
           /\ (c.left = SaveOrder(c.file) \/ (c.file = "fallback" /\ c.left = <<"enabled">>))
    /\ c.step # "read" => c.left = << >>
    /\ c.data = [f \in DOMAIN c.data |-> c.data[f]] /\ DOMAIN c.data \subseteq FieldsOf(c.file)
    /\ c.step \in {"read", "write"} =>
           \A f \in FieldsOf(c.file) \ Fields(c.left) : f \in DOMAIN c.data /\ c.data[f] = mem[f]

Busy(c) == c.file \in File /\ InHand(c) /\ Fetched(c)

AllIdle == \A o \in Operator : call[o].step = "idle"

InForce == acked = wanted /\ mem = wanted /\ Kept(mem)

Types ==
    /\ mem \in Config /\ acked \in Config /\ wanted \in Config
    /\ \A file \in File : disk[file] \in Content(file) \cup {None}
    /\ failed \subseteq File /\ DOMAIN disk = File /\ DOMAIN call = Operator
    /\ \A o \in Operator :
           DOMAIN call[o] = {"step", "file", "sets", "left", "data"}

Inv ==
    /\ Alone /\ Types
    /\ (Up /\ AllIdle) => InForce
    /\ Up => \A o \in Operator : call[o].step = "idle" \/ Busy(call[o])
    /\ ~Up => AllIdle /\ ~page /\ CrashIsOldOrNew /\ PlannedExitKeepsAll

USE ConfigAssumption, NoneAssumption

LEMMA DefaultIsConfig == Default \in Config
<1>1. /\ Default["intercept"] = "off" /\ Default["enabled"] = "off"
      /\ Default["model"] = DefaultModel /\ Default["rules"] = NoRules
  BY DEF Default, Field
<1>2. Default \in [Field -> {"on", "off"} \cup Model \cup RuleSet]
  BY DEF Default, Field
<1>3. \A f \in Field : Default[f] \in Value(f)
  BY <1>1 DEF Field, Value
<1> QED
  BY <1>2, <1>3 DEF Config

LEMMA InitInv == Alone /\ Init => Inv
<1> SUFFICES ASSUME Alone, Init PROVE Inv
  OBVIOUS
<1>1. Types
  BY DefaultIsConfig DEF Init, Types, Idle
<1>2. Kept(mem)
  <2> SUFFICES ASSUME NEW f \in Field PROVE Restored[f] = mem[f]
    BY DEF Kept
  <2>1. PICK file \in File : f \in FieldsOf(file)
    BY FileOf
  <2> QED
    BY <2>1, RestoredAt DEF Init
<1>3. AllIdle /\ InForce /\ Up
  BY <1>2 DEF Init, AllIdle, InForce, Idle, Up
<1> QED
  BY <1>1, <1>3 DEF Inv, AllIdle

\* The files, and with them what a restart would find, are as before.
LEMMA SameFiles ==
    ASSUME UNCHANGED disk PROVE Restored' = Restored
BY DEF Restored

LEMMA RequestShape ==
    ASSUME NEW q \in Request
    PROVE  /\ q.file \in File
           /\ \/ \E f \in FieldsOf(q.file) : \E v \in Value(f) : q.sets = <<Set(f, v)>>
              \/ /\ q.file = "fallback"
                 /\ \E v \in Value("enabled"), m \in Value("model") :
                        q.sets = <<Set("enabled", v), Set("model", m)>>
<1> DEFINE I == {<<Set("intercept", v)>> : v \in Value("intercept")}
           E == {<<Set("enabled", v)>> : v \in Value("enabled")}
           B == {<<Set("enabled", v), Set("model", m)>> : v \in Value("enabled"), m \in Model}
           S == {<<Set("rules", rs)>> : rs \in RuleSet}
<1>1. \/ q \in [file : {"intercept"}, sets : I]
      \/ q \in [file : {"fallback"}, sets : E \cup B]
      \/ q \in [file : {"rules"}, sets : S]
  BY DEF Request, RequestWith
<1> HIDE DEF I, E, B, S
<1>2. \/ q.file = "intercept" /\ q.sets \in I
      \/ q.file = "fallback" /\ q.sets \in E
      \/ q.file = "fallback" /\ q.sets \in B
      \/ q.file = "rules" /\ q.sets \in S
  BY <1>1
<1>3. /\ FieldsOf("intercept") = {"intercept"} /\ FieldsOf("fallback") = {"enabled", "model"}
      /\ FieldsOf("rules") = {"rules"} /\ Value("rules") = RuleSet /\ Value("model") = Model
  BY DEF FieldsOf, Value
<1>4. CASE q.file = "intercept" /\ q.sets \in I
  BY <1>3, <1>4 DEF I, File
<1>5. CASE q.file = "fallback" /\ q.sets \in E
  BY <1>3, <1>5 DEF E, File
<1>6. CASE q.file = "fallback" /\ q.sets \in B
  BY <1>3, <1>6 DEF B, File
<1>7. CASE q.file = "rules" /\ q.sets \in S
  BY <1>3, <1>7 DEF S, File
<1> QED
  BY <1>2, <1>4, <1>5, <1>6, <1>7

LEMMA FieldsOfFiles == \A file \in File : FieldsOf(file) \subseteq Field
BY DEF File, FieldsOf, Field

LEMMA ConfigShape ==
    ASSUME NEW c \in Config
    PROVE  c = [f \in Field |-> c[f]] /\ \A f \in Field : c[f] \in Value(f)
BY DEF Config

LEMMA ConfigExcept ==
    ASSUME NEW c \in Config, NEW f \in Field, NEW v \in Value(f)
    PROVE  [c EXCEPT ![f] = v] \in Config
<1>1. v \in {"on", "off"} \cup Model \cup RuleSet
  BY DEF Field, Value
<1> QED
  BY <1>1 DEF Config

\* What the files restore is a configuration.
LEMMA RestoredIsConfig ==
    ASSUME Types PROVE Restored \in Config
<1>1. ASSUME NEW f \in Field PROVE Restored[f] \in Value(f)
  <2>1. PICK file \in File : f \in FieldsOf(file)
    BY FileOf
  <2>2. Restored[f] = IF disk[file] = None THEN Default[f] ELSE disk[file][f]
    BY <2>1, RestoredAt
  <2>3. Default[f] \in Value(f)
    BY DefaultIsConfig, ConfigShape
  <2>4. disk[file] # None => disk[file][f] \in Value(f)
    BY <2>1 DEF Types, Content
  <2> QED
    BY <2>2, <2>3, <2>4
<1>2. ASSUME NEW f \in Field PROVE Value(f) \subseteq {"on", "off"} \cup Model \cup RuleSet
  BY DEF Field, Value
<1>3. Restored = [f \in Field |-> Restored[f]]
  BY DEF Restored
<1> QED
  BY <1>1, <1>2, <1>3 DEF Config

-----------------------------------------------------------------------------
\* Admin calls.  A call begins when no other is under way.
LEMMA BeginKeeps ==
    ASSUME Inv, NEW o \in Operator, NEW q \in Request, Begin(o, q)
    PROVE  Inv'
<1>1. Up /\ AllIdle /\ InForce
  BY DEF Inv, Begin, At, AllIdle, Alone
<1>2. PICK c : c = [step |-> "assign", file |-> q.file, sets |-> q.sets,
                    left |-> << >>, data |-> << >>]
  OBVIOUS
<1>3. call' = [call EXCEPT ![o] = c]
  BY <1>2 DEF Begin
<1>4. call'[o] = c /\ \A p \in Operator : p = o
  BY <1>3 DEF Inv, Types, Alone
<1>5. UNCHANGED <<stage, expired, proxied, page, mem, disk, failed, acked>>
      /\ Restored' = Restored
  BY SameFiles DEF Begin, process, files
<1>6. wanted \in Config /\ wanted = acked /\ mem = acked
  BY <1>1 DEF Inv, Types, InForce
<1>7. Kept(acked)'
  BY <1>1, <1>5, <1>6 DEF InForce, Kept, Safe
<1>8. c.file \in File /\ InHand(c)' /\ wanted' \in Config
  <2>1. ASSUME NEW f \in FieldsOf(q.file), NEW v \in Value(f), q.sets = <<Set(f, v)>>,
               q.file \in File
        PROVE  One(c, f, v)' /\ wanted' \in Config
    <3>1. f \in Field
      BY <2>1, FieldsOfFiles
    <3>2. wanted' = [acked EXCEPT ![f] = v]
      BY <1>6, <2>1, <3>1, AssignedOne, ConfigShape DEF Begin
    <3>3. Resting(c, {"assign"}, <<Set(f, v)>>, acked)'
      BY <1>2, <1>5, <1>6, <1>7, <2>1 DEF Resting
    <3>4. wanted' \in Config
      BY <1>6, <3>1, <3>2, ConfigExcept
    <3> QED
      BY <1>2, <1>5, <2>1, <3>2, <3>3, <3>4 DEF One
  <2>2. ASSUME NEW v \in Value("enabled"), NEW m \in Value("model"),
               q.sets = <<Set("enabled", v), Set("model", m)>>, q.file = "fallback"
        PROVE  Two(c, v, m)' /\ wanted' \in Config
    <3>1. wanted' = [acked EXCEPT !["enabled"] = v, !["model"] = m]
      BY <1>6, <2>2, AssignedTwo, ConfigShape DEF Begin
    <3>2. Resting(c, {"assign"}, <<Set("enabled", v), Set("model", m)>>, acked)'
      BY <1>2, <1>5, <1>6, <1>7, <2>2 DEF Resting
    <3>3. [acked EXCEPT !["enabled"] = v] \in Config
      BY <1>6, ConfigExcept DEF Field
    <3>4. [[acked EXCEPT !["enabled"] = v] EXCEPT !["model"] = m] \in Config
      BY <3>3, ConfigExcept DEF Field
    <3>5. wanted' \in Config
      BY <3>1, <3>4
    <3> QED
      BY <1>2, <1>5, <2>2, <3>1, <3>2, <3>5 DEF Two
  <2> QED
    BY <1>2, <2>1, <2>2, RequestShape DEF InHand
<1>9. Busy(c)'
  <2>1. Fetched(c)'
    BY <1>2 DEF Fetched
  <2> QED
    BY <1>8, <2>1 DEF Busy
<1>10. Types'
  BY <1>2, <1>3, <1>5, <1>8 DEF Inv, Types
<1> QED
  BY <1>1, <1>2, <1>4, <1>5, <1>9, <1>10 DEF Inv, Up, AllIdle

\* What the steps of a call leave alone besides that call.
Frame(o) ==
    /\ UNCHANGED process /\ page' = page
    /\ call' = [call EXCEPT ![o] = call'[o]] /\ DOMAIN call'[o] = DOMAIN call[o]
    /\ call'[o].file = call[o].file

\* With one operator, what is left to show of a step is about its call.
LEMMA StepKeeps ==
    ASSUME Inv, NEW o \in Operator, Up, Frame(o), UNCHANGED <<acked, wanted>>,
           mem' \in Config, \A file \in File : disk'[file] \in Content(file) \cup {None},
           DOMAIN disk' = File, failed' \subseteq File, NEW d, d = call'[o], d.step # "idle", Busy(d)'
    PROVE  Inv'
<1>1. \A p \in Operator : p = o
  BY DEF Inv, Alone
<1>2. DOMAIN call' = Operator /\ DOMAIN call'[o] = DOMAIN call[o]
  BY DEF Inv, Types, Frame
<1>3. Types'
  BY <1>1, <1>2 DEF Inv, Types
<1>4. Up' /\ ~AllIdle'
  BY DEF Frame, process, Up, AllIdle
<1>5. \A p \in Operator : Busy(call[p])'
  BY <1>1
<1> QED
  BY <1>3, <1>4, <1>5 DEF Inv, Alone

LEMMA BusyNow ==
    ASSUME Inv, NEW o \in Operator, Up, call[o].step # "idle"
    PROVE  Busy(call[o]) /\ call[o].file \in File /\ Types
BY DEF Inv, Busy

LEMMA AssignStep ==
    ASSUME Inv, NEW o \in Operator, Assign(o)
    PROVE  LET c == call[o]
               d == call'[o]
           IN  /\ Frame(o) /\ d.sets = Tail(c.sets)
               /\ IF c.file = "rules"
                  THEN /\ d.step = "write" /\ d.left = c.left
                       /\ d.data = [f \in {"rules"} |-> Head(c.sets).value]
                  ELSE d.step = "read" /\ d.left = SaveOrder(c.file) /\ d.data = c.data
<1> DEFINE c == call[o]
<1>1. DOMAIN c = {"step", "file", "sets", "left", "data"}
  BY DEF Inv, Types
<1>2. CASE c.file = "rules"
  BY <1>1, <1>2 DEF Inv, Types, Assign, Frame
<1>3. CASE c.file # "rules"
  BY <1>1, <1>3 DEF Inv, Types, Assign, Frame
<1> QED
  BY <1>2, <1>3

LEMMA SetParts == \A f, v : Set(f, v).field = f /\ Set(f, v).value = v
BY DEF Set

LEMMA AssignKeeps ==
    ASSUME Inv, NEW o \in Operator, Assign(o)
    PROVE  Inv'
<1>1. PICK c : c = call[o]
  OBVIOUS
<1>2. PICK d : d = call'[o]
  OBVIOUS
<1>3. /\ Up /\ c.step = "assign" /\ UNCHANGED <<process, page, disk, failed, acked, wanted>>
      /\ mem' = [mem EXCEPT ![Head(c.sets).field] = Head(c.sets).value]
  BY <1>1 DEF Assign, At, files, asked
<1>4. Busy(c) /\ c.file \in File /\ Types
  BY <1>1, <1>3, BusyNow
<1>5. /\ Frame(o) /\ d.sets = Tail(c.sets) /\ d.file = c.file
      /\ c.file = "rules" => /\ d.step = "write" /\ d.left = c.left
                             /\ d.data = [f \in {"rules"} |-> Head(c.sets).value]
      /\ c.file # "rules" => d.step = "read" /\ d.left = SaveOrder(c.file) /\ d.data = c.data
  BY <1>1, <1>2, AssignStep DEF Frame
<1>6. Restored' = Restored /\ \A g : Safe(g)' <=> Safe(g)
  BY <1>3, SameFiles DEF Safe
<1>7. d.step \in {"read", "write"}
  BY <1>5
<1>8. /\ InHand(d)'
      /\ \E f \in FieldsOf(c.file) : \E v \in Value(f) :
             mem' = [mem EXCEPT ![f] = v] /\ Head(c.sets).value = v /\ Head(c.sets).field = f
  <2>1. ASSUME NEW f \in FieldsOf(c.file), NEW v \in Value(f), One(c, f, v)
        PROVE  <1>8!:
    <3>1. c.sets = <<Set(f, v)>> /\ mem = acked /\ Kept(acked)
      BY <1>3, <2>1 DEF One, Resting, Saving
    <3>2. Head(c.sets) = Set(f, v) /\ Tail(c.sets) = << >>
      BY <3>1, Tails
    <3>3. mem' = [mem EXCEPT ![f] = v] /\ Head(c.sets).value = v /\ Head(c.sets).field = f
      BY <1>3, <3>2, SetParts
    <3>4. wanted = [acked EXCEPT ![f] = v]
      BY <2>1 DEF One
    <3>5. Kept(acked)'
      BY <1>3, <1>6, <3>1 DEF Kept
    <3>6. Saving(d, << >>, acked, wanted)'
      BY <1>3, <1>5, <1>7, <3>1, <3>2, <3>3, <3>4, <3>5 DEF Saving
    <3>7. One(d, f, v)'
      BY <1>3, <1>5, <3>4, <3>6 DEF One
    <3> QED
      BY <1>5, <3>3, <3>7 DEF InHand
  <2>2. ASSUME NEW v \in Value("enabled"), NEW m \in Value("model"), Two(c, v, m)
        PROVE  <1>8!:
    <3>1. /\ c.file = "fallback"
          /\ wanted = [acked EXCEPT !["enabled"] = v, !["model"] = m]
          /\ FieldsOf("fallback") = {"enabled", "model"}
      BY <2>2 DEF Two, FieldsOf
    <3>2. CASE Resting(c, {"assign"}, <<Set("enabled", v), Set("model", m)>>, acked)
      <4>1. Head(c.sets) = Set("enabled", v) /\ Tail(c.sets) = <<Set("model", m)>>
        BY <3>2, Tails DEF Resting
      <4>6. Head(c.sets).value = v /\ Head(c.sets).field = "enabled"
        BY <4>1 DEF Set
      <4>2. mem' = [mem EXCEPT !["enabled"] = v] /\ mem = acked
            /\ Head(c.sets).value = v /\ Head(c.sets).field = "enabled"
        BY <1>3, <3>2, <4>6 DEF Resting
      <4>3. Kept(acked)'
        BY <1>3, <1>6, <3>2 DEF Kept, Resting
      <4>4. Saving(d, <<Set("model", m)>>, acked, Half(v))'
        BY <1>3, <1>5, <1>7, <4>1, <4>2, <4>3 DEF Saving, Half
      <4>5. Two(d, v, m)'
        BY <1>3, <1>5, <3>1, <4>4 DEF Two
      <4> QED
        BY <3>1, <4>2, <4>5 DEF InHand
    <3>3. CASE Resting(c, {"assign"}, <<Set("model", m)>>, Half(v))
      <4>1. Head(c.sets) = Set("model", m) /\ Tail(c.sets) = << >>
        BY <3>3, Tails DEF Resting
      <4>6. Head(c.sets).value = m /\ Head(c.sets).field = "model"
        BY <4>1 DEF Set
      <4>2. mem' = [mem EXCEPT !["model"] = m] /\ mem = Half(v)
            /\ Head(c.sets).value = m /\ Head(c.sets).field = "model"
        BY <1>3, <3>3, <4>6 DEF Resting
      <4>3. Kept(Half(v))' /\ mem' = wanted
        BY <1>3, <1>6, <3>1, <3>3, <4>2 DEF Kept, Resting, Half
      <4>4. Saving(d, << >>, Half(v), wanted)'
        BY <1>3, <1>5, <1>7, <4>1, <4>3 DEF Saving, Half
      <4>5. Two(d, v, m)'
        BY <1>3, <1>5, <3>1, <4>4 DEF Two
      <4> QED
        BY <3>1, <4>2, <4>5 DEF InHand
    <3> QED
      BY <1>3, <2>2, <3>2, <3>3 DEF Two, Resting, Saving
  <2> QED
    BY <1>4, <2>1, <2>2 DEF Busy, InHand
<1>14. PICK f \in FieldsOf(c.file) : \E v \in Value(f) :
          mem' = [mem EXCEPT ![f] = v] /\ Head(c.sets).value = v /\ Head(c.sets).field = f
  BY <1>8
<1>9. PICK v \in Value(f) :
          mem' = [mem EXCEPT ![f] = v] /\ Head(c.sets).value = v /\ Head(c.sets).field = f
  BY <1>14
<1>10. f \in Field /\ mem' \in Config
  BY <1>4, <1>9, FieldsOfFiles, ConfigExcept DEF Types
<1>12. Fetched(d)'
  <2>1. CASE c.file = "rules"
    <3>1. FieldsOf("rules") = {"rules"} /\ f = "rules" /\ f \in Field
      BY <1>9, <1>10, <2>1 DEF FieldsOf
    <3>2. mem'["rules"] = v
      BY <1>4, <1>9, <3>1 DEF Types, Config
    <3>3. c.left = << >>
      BY <1>3, <1>4 DEF Busy, Fetched
    <3> QED
      BY <1>5, <1>9, <2>1, <3>1, <3>2, <3>3 DEF Fetched
  <2>2. CASE c.file # "rules"
    <3>1. FieldsOf(c.file) \subseteq Fields(SaveOrder(c.file))
      <4>1. CASE c.file = "fallback"
        <5>1. PICK s : s = <<"model", "enabled">>
          OBVIOUS
        <5>2. Len(s) = 2 /\ s[1] = "model" /\ s[2] = "enabled"
          BY <5>1
        <5>3. "model" \in Fields(s) /\ "enabled" \in Fields(s)
          BY <5>2 DEF Fields
        <5> QED
          BY <4>1, <5>1, <5>3 DEF SaveOrder, FieldsOf
      <4>2. CASE c.file = "intercept"
        <5>1. "intercept" \in Fields(<<"intercept">>)
          BY DEF Fields
        <5> QED
          BY <4>2, <5>1 DEF SaveOrder, FieldsOf
      <4> QED
        BY <1>4, <2>2, <4>1, <4>2 DEF File
    <3>2. d.data = [g \in DOMAIN d.data |-> d.data[g]] /\ DOMAIN d.data \subseteq FieldsOf(d.file)
      BY <1>4, <1>5, <2>2 DEF Busy, Fetched
    <3> QED
      BY <1>5, <2>2, <3>1, <3>2 DEF Fetched
  <2> QED
    BY <2>1, <2>2
<1>13. Busy(d)'
  BY <1>4, <1>5, <1>8, <1>12 DEF Busy
<1> QED
  BY <1>2, <1>3, <1>4, <1>5, <1>7, <1>10, <1>13, StepKeeps DEF Types

\* A call that goes on without changing memory or files.
LEMMA HandOn ==
    ASSUME NEW c, NEW d, InHand(c), d.file = c.file, d.sets = c.sets,
           c.step \in {"read", "write"}, d.step \in {"read", "write"},
           UNCHANGED <<mem, disk, failed, acked, wanted>>
    PROVE  InHand(d)'
<1>1. \A x : Kept(x) => Kept(x)'
  BY SameFiles DEF Kept, Safe
<1>2. Kept(acked) => Kept(acked)'
  BY <1>1
<1>3. Kept(wanted) => Kept(wanted)'
  BY <1>1
<1>4. \A v : Kept(Half(v)) => Kept(Half(v))'
  BY <1>1 DEF Half
<1>5. ASSUME NEW f, NEW v, One(c, f, v) PROVE One(d, f, v)'
  BY <1>2, <1>3, <1>5 DEF One, Resting, Saving
<1>6. ASSUME NEW v, NEW m, Two(c, v, m) PROVE Two(d, v, m)'
  BY <1>2, <1>3, <1>4, <1>6 DEF Two, Resting, Saving, Half
<1> QED
  BY <1>5, <1>6 DEF InHand

LEMMA FieldLists ==
    ASSUME NEW a, NEW b
    PROVE  /\ Fields(<<a>>) = {a} /\ Len(<<a>>) = 1
           /\ Fields(<<a, b>>) = {a, b} /\ Len(<<a, b>>) = 2
           /\ Fields(<< >>) = {}
<1>1. PICK s : s = <<a, b>>
  OBVIOUS
<1>2. Len(s) = 2 /\ s[1] = a /\ s[2] = b
  BY <1>1
<1>3. Fields(s) = {a, b}
  BY <1>2 DEF Fields
<1>4. PICK t : t = <<a>>
  OBVIOUS
<1>5. Len(t) = 1 /\ t[1] = a
  BY <1>4
<1>6. Fields(t) = {a}
  BY <1>5 DEF Fields
<1>7. Fields(<< >>) = {}
  BY DEF Fields
<1> QED
  BY <1>1, <1>2, <1>3, <1>4, <1>5, <1>6, <1>7

\* The lists of fields that are read, before and after a step.
LEMMA Reading ==
    ASSUME NEW c, c.file \in File, Fetched(c), c.step = "read"
    PROVE  \/ \E f \in FieldsOf(c.file) : c.left = <<f>>
           \/ c.file = "fallback" /\ c.left = <<"model", "enabled">>
<1>1. CASE c.file = "fallback"
  BY <1>1 DEF Fetched, SaveOrder, FieldsOf
<1>2. CASE c.file = "intercept"
  BY <1>2 DEF Fetched, SaveOrder, FieldsOf
<1>3. CASE c.file = "rules"
  BY <1>3 DEF Fetched
<1> QED
  BY <1>1, <1>2, <1>3 DEF File

LEMMA SaveStep ==
    ASSUME Inv, NEW o \in Operator, Save(o)
    PROVE  LET c == call[o]
               d == call'[o]
               f == Head(c.left)
           IN  /\ Frame(o) /\ d.sets = c.sets /\ d.left = Tail(c.left)
               /\ d.data = [g \in DOMAIN c.data \cup {f} |-> IF g = f THEN mem[f] ELSE c.data[g]]
               /\ d.step = IF Len(c.left) = 1 THEN "write" ELSE "read"
<1> DEFINE c == call[o]
<1>1. DOMAIN c = {"step", "file", "sets", "left", "data"}
  BY DEF Inv, Types
<1> QED
  BY <1>1 DEF Inv, Types, Save, Frame

LEMMA SaveKeeps ==
    ASSUME Inv, NEW o \in Operator, Save(o)
    PROVE  Inv'
<1>1. PICK c : c = call[o]
  OBVIOUS
<1>2. PICK d : d = call'[o]
  OBVIOUS
<1>3. /\ Up /\ UNCHANGED <<process, page, mem, disk, failed, acked, wanted>>
      /\ c.step = "read"
  BY <1>1 DEF Save, At, files, asked
<1>4. Busy(c) /\ c.file \in File /\ Types
  BY <1>1, <1>3, BusyNow
<1>5. PICK h : h = Head(c.left)
  OBVIOUS
<1>6. /\ Frame(o) /\ d.sets = c.sets /\ d.left = Tail(c.left)
      /\ d.data = [g \in DOMAIN c.data \cup {h} |-> IF g = h THEN mem[h] ELSE c.data[g]]
      /\ d.file = c.file /\ d.step = IF Len(c.left) = 1 THEN "write" ELSE "read"
  BY <1>1, <1>2, <1>5, SaveStep DEF Frame
<1>7. InHand(d)'
  BY <1>3, <1>4, <1>6, HandOn DEF Busy
<1>9. DOMAIN d.data = DOMAIN c.data \cup {h} /\ d.data = [g \in DOMAIN d.data |-> d.data[g]]
      /\ d.data[h] = mem[h] /\ \A g \in DOMAIN c.data \ {h} : d.data[g] = c.data[g]
  BY <1>6
<1>10. Fetched(c)
  BY <1>4 DEF Busy
<1>11. /\ h \in FieldsOf(c.file) /\ Fields(c.left) \subseteq Fields(d.left) \cup {h}
       /\ d.step = "read" => d.file # "rules"
              /\ (d.left = SaveOrder(d.file) \/ (d.file = "fallback" /\ d.left = <<"enabled">>))
       /\ d.step = "write" => d.left = << >>
       /\ d.step \in {"read", "write"}
  <2>1. ASSUME NEW f \in FieldsOf(c.file), c.left = <<f>> PROVE <1>11!:
    <3>1. h = f /\ d.left = << >> /\ Len(c.left) = 1 /\ Fields(c.left) = {f}
      <4>1. Head(<<f>>) = f /\ Tail(<<f>>) = << >> /\ Len(<<f>>) = 1
        OBVIOUS
      <4>2. Fields(<<f>>) = {f}
        BY FieldLists
      <4> QED
        BY <1>5, <1>6, <2>1, <4>1, <4>2
    <3> QED
      BY <1>6, <3>1
  <2>2. CASE c.file = "fallback" /\ c.left = <<"model", "enabled">>
    <3>1. h = "model" /\ d.left = <<"enabled">> /\ Len(c.left) = 2
          /\ Fields(c.left) = {"model", "enabled"} /\ Fields(d.left) = {"enabled"}
      <4>1. /\ Head(<<"model", "enabled">>) = "model" /\ Tail(<<"model", "enabled">>) = <<"enabled">>
            /\ Len(<<"model", "enabled">>) = 2
        OBVIOUS
      <4>2. Fields(<<"model", "enabled">>) = {"model", "enabled"}
        BY FieldLists
      <4>3. Fields(<<"enabled">>) = {"enabled"}
        BY FieldLists
      <4> QED
        BY <1>5, <1>6, <2>2, <4>1, <4>2, <4>3
    <3>2. d.step = "read" /\ "model" \in FieldsOf(c.file)
      BY <1>6, <2>2, <3>1 DEF FieldsOf
    <3> QED
      BY <1>6, <2>2, <3>1, <3>2
  <2> QED
    BY <1>3, <1>4, <1>10, <2>1, <2>2, Reading
<1>12. Fetched(d)'
  <2>1. \A f \in FieldsOf(c.file) \ Fields(c.left) : f \in DOMAIN c.data /\ c.data[f] = mem[f]
    BY <1>3, <1>10 DEF Fetched
  <2>2. \A f \in FieldsOf(c.file) \ Fields(d.left) : f \in DOMAIN d.data /\ d.data[f] = mem[f]
    BY <1>9, <1>11, <2>1
  <2>3. DOMAIN d.data \subseteq FieldsOf(d.file)
    BY <1>6, <1>9, <1>10, <1>11 DEF Fetched
  <2> QED
    BY <1>3, <1>6, <1>9, <1>11, <2>2, <2>3 DEF Fetched
<1>13. Busy(d)'
  BY <1>4, <1>6, <1>7, <1>12 DEF Busy
<1> QED
  BY <1>2, <1>3, <1>4, <1>6, <1>11, <1>13, StepKeeps DEF Types

\* A write takes the files from what they held, which differs from memory
\* in the fields of this file at most.
LEMMA Outside ==
    ASSUME NEW c, c.file \in File, c.step = "write", InHand(c), Types
    PROVE  \E old : Kept(old) /\ \A f \in Field \ FieldsOf(c.file) : mem[f] = old[f]
<1>1. ASSUME NEW f \in FieldsOf(c.file), NEW v, One(c, f, v)
      PROVE  Kept(acked) /\ \A g \in Field \ FieldsOf(c.file) : mem[g] = acked[g]
  BY <1>1, ConfigShape DEF One, Resting, Saving, Types
<1>2. ASSUME NEW v, NEW m, Two(c, v, m)
      PROVE  \E old : Kept(old) /\ \A f \in Field \ FieldsOf(c.file) : mem[f] = old[f]
  <2>1. FieldsOf(c.file) = {"enabled", "model"} /\ acked = [f \in Field |-> acked[f]]
    BY <1>2, ConfigShape DEF Two, FieldsOf, Types
  <2>2. PICK half : half = Half(v)
    OBVIOUS
  <2>3. \A f \in Field \ FieldsOf(c.file) :
            half[f] = acked[f] /\ wanted[f] = acked[f]
    BY <1>2, <2>1, <2>2 DEF Half, Two
  <2>4. \/ mem = half /\ Kept(acked)
        \/ mem = wanted /\ Kept(half)
    BY <1>2, <2>2 DEF Two, Resting, Saving
  <2> QED
    BY <2>3, <2>4
<1> QED
  BY <1>1, <1>2 DEF InHand

\* What AfterWrite makes of a call.
After(c, d) ==
    /\ d.file = c.file /\ d.sets = c.sets /\ d.data = c.data /\ d.left = c.left
    /\ d.step = IF c.sets # << >> THEN "assign" ELSE "answer"

LEMMA AfterWriteStep ==
    ASSUME Inv, NEW o \in Operator, call' = [call EXCEPT ![o] = AfterWrite(@)],
           UNCHANGED <<process, page>>
    PROVE  Frame(o) /\ After(call[o], call'[o])
<1>1. PICK c : c = call[o]
  OBVIOUS
<1>2. DOMAIN c = {"step", "file", "sets", "left", "data"} /\ DOMAIN call = Operator
  BY <1>1 DEF Inv, Types
<1>3. call'[o] = AfterWrite(c) /\ call' = [call EXCEPT ![o] = call'[o]]
  BY <1>1, <1>2
<1>4. PICK d : d = AfterWrite(c)
  OBVIOUS
<1>5. After(c, d) /\ DOMAIN d = DOMAIN c
  BY <1>2, <1>4 DEF AfterWrite, After
<1> QED
  BY <1>1, <1>3, <1>4, <1>5 DEF Frame, After

LEMMA AfterKeeps ==
    ASSUME NEW c, NEW d, Busy(c), c.step = "write", After(c, d), Kept(mem)',
           UNCHANGED <<mem, acked, wanted>>
    PROVE  Busy(d)' /\ d.step # "idle"
<1>1. InHand(d)'
  <2>1. ASSUME NEW f, NEW v, One(c, f, v) PROVE One(d, f, v)'
    <3>1. c.sets = << >> /\ mem = wanted
      BY <2>1 DEF One, Resting, Saving
    <3>2. d.step = "answer" /\ d.sets = << >>
      BY <3>1 DEF After
    <3>3. Kept(wanted)'
      BY <3>1
    <3> QED
      BY <2>1, <3>1, <3>2, <3>3 DEF One, Resting
  <2>2. ASSUME NEW v, NEW m, Two(c, v, m) PROVE Two(d, v, m)'
    <3>1. d.file = "fallback" /\ d.sets = c.sets
      BY <2>2 DEF Two, After
    <3>2. CASE Saving(c, <<Set("model", m)>>, acked, Half(v))
      <4>1. c.sets # << >>
        BY <3>2 DEF Saving
      <4>2. mem = Half(v) /\ Half(v)' = Half(v)
        BY <3>2 DEF Saving, Half
      <4>3. Kept(Half(v))'
        BY <4>2
      <4>4. Resting(d, {"assign"}, <<Set("model", m)>>, Half(v))'
        BY <3>1, <3>2, <4>1, <4>2, <4>3 DEF Resting, Saving, After
      <4> QED
        BY <2>2, <3>1, <4>4 DEF Two
    <3>3. CASE Saving(c, << >>, Half(v), wanted)
      <4>1. c.sets = << >> /\ mem = wanted
        BY <3>3 DEF Saving
      <4>2. Kept(wanted)'
        BY <4>1
      <4>3. Resting(d, {"answer"}, << >>, wanted)'
        BY <3>1, <4>1, <4>2 DEF Resting, After
      <4> QED
        BY <2>2, <3>1, <4>3 DEF Two
    <3> QED
      BY <2>2, <3>2, <3>3 DEF Two, Resting
  <2> QED
    BY <2>1, <2>2 DEF Busy, InHand, After
<1>2. Fetched(d)'
  <2>1. c.left = << >>
    BY DEF Busy, Fetched
  <2>2. c.data = [f \in DOMAIN c.data |-> c.data[f]] /\ DOMAIN c.data \subseteq FieldsOf(c.file)
    BY DEF Busy, Fetched
  <2> QED
    BY <2>1, <2>2 DEF After, Fetched
<1>3. d.step \in {"assign", "answer"} /\ d.file \in File
  BY DEF After, Busy
<1> QED
  BY <1>1, <1>2, <1>3 DEF Busy

\* The rename puts the fields of the file in force on disk.
LEMMA WriteKeeps ==
    ASSUME Inv, NEW o \in Operator, Write(o)
    PROVE  Inv'
<1>1. PICK c : c = call[o]
  OBVIOUS
<1>2. PICK d : d = call'[o]
  OBVIOUS
<1>3. /\ Up /\ UNCHANGED <<process, page, mem, acked, wanted>> /\ c.step = "write"
      /\ disk' = [disk EXCEPT ![c.file] = c.data] /\ failed' = failed \ {c.file}
      /\ call' = [call EXCEPT ![o] = AfterWrite(@)]
  BY <1>1 DEF Write, At, asked
<1>4. Busy(c) /\ c.file \in File /\ Types
  BY <1>1, <1>3, BusyNow
<1>5. Frame(o) /\ After(c, d)
  BY <1>1, <1>2, <1>3, AfterWriteStep
<1>6. c.data = [f \in FieldsOf(c.file) |-> mem[f]]
  <2>1. c.left = << >> /\ Fields(<< >>) = {}
    BY <1>3, <1>4, FieldLists DEF Busy, Fetched
  <2>2. \A f \in FieldsOf(c.file) : f \in DOMAIN c.data /\ c.data[f] = mem[f]
    BY <1>3, <1>4, <2>1 DEF Busy, Fetched
  <2>3. c.data = [f \in DOMAIN c.data |-> c.data[f]] /\ DOMAIN c.data \subseteq FieldsOf(c.file)
    BY <1>4 DEF Busy, Fetched
  <2>4. DOMAIN c.data = FieldsOf(c.file)
    BY <2>2, <2>3
  <2> QED
    BY <2>2, <2>3, <2>4
<1>7. c.data \in Content(c.file) /\ c.data # None
  <2>1. \A f \in FieldsOf(c.file) :
            mem[f] \in {"on", "off"} \cup Model \cup RuleSet /\ mem[f] \in Value(f)
    BY <1>4, FieldsOfFiles DEF Types, Config
  <2> QED
    BY <1>4, <1>6, <2>1 DEF Content
<1>8. /\ DOMAIN disk' = File /\ \A file \in File : disk'[file] \in Content(file) \cup {None}
      /\ disk'[c.file] = c.data /\ \A file \in File \ {c.file} : disk'[file] = disk[file]
  BY <1>3, <1>4, <1>7 DEF Types
<1>9. Kept(mem)'
  <2>1. PICK old : Kept(old) /\ \A f \in Field \ FieldsOf(c.file) : mem[f] = old[f]
    BY <1>3, <1>4, Outside DEF Busy
  <2>2. ASSUME NEW f \in Field, Safe(f)' PROVE Restored'[f] = mem[f]
    <3>1. PICK file \in File : f \in FieldsOf(file) /\ \A y \in File : f \in FieldsOf(y) => y = file
      BY FileOf
    <3>2. /\ Restored[f] = IF disk[file] = None THEN Default[f] ELSE disk[file][f]
          /\ Restored'[f] = IF disk'[file] = None THEN Default[f] ELSE disk'[file][f]
      BY <3>1, RestoredAt
    <3>3. CASE file = c.file
      BY <1>6, <1>7, <1>8, <3>1, <3>2, <3>3
    <3>4. CASE file # c.file
      <4>1. f \notin FieldsOf(c.file)
        BY <1>4, <3>1, <3>4
      <4>2. Safe(f)
        BY <1>3, <2>2, <4>1 DEF Safe
      <4>3. Restored[f] = mem[f]
        BY <2>1, <4>1, <4>2 DEF Kept
      <4> QED
        BY <1>8, <3>2, <3>4, <4>3
    <3> QED
      BY <3>3, <3>4
  <2> QED
    BY <1>3, <2>2 DEF Kept
<1>10. Busy(d)' /\ d.step # "idle"
  BY <1>3, <1>4, <1>5, <1>9, AfterKeeps
<1> QED
  BY <1>2, <1>3, <1>4, <1>5, <1>8, <1>10, StepKeeps DEF Types

\* A write that fails marks its file, and nothing is asked of its fields.
LEMMA WriteFailsKeeps ==
    ASSUME Inv, NEW o \in Operator, WriteFails(o)
    PROVE  Inv'
<1>1. PICK c : c = call[o]
  OBVIOUS
<1>2. PICK d : d = call'[o]
  OBVIOUS
<1>3. /\ Up /\ UNCHANGED <<process, page, mem, disk, acked, wanted>> /\ c.step = "write"
      /\ failed' = failed \cup {c.file}
      /\ call' = [call EXCEPT ![o] = AfterWrite(@)]
  BY <1>1 DEF WriteFails, At, asked
<1>4. Busy(c) /\ c.file \in File /\ Types
  BY <1>1, <1>3, BusyNow
<1>5. Frame(o) /\ After(c, d)
  BY <1>1, <1>2, <1>3, AfterWriteStep
<1>6. Kept(mem)'
  <2>1. PICK old : Kept(old) /\ \A f \in Field \ FieldsOf(c.file) : mem[f] = old[f]
    BY <1>3, <1>4, Outside DEF Busy
  <2>2. Restored' = Restored
    BY <1>3, SameFiles
  <2>3. ASSUME NEW f \in Field, Safe(f)' PROVE Safe(f) /\ f \notin FieldsOf(c.file)
    BY <1>3, <2>3 DEF Safe
  <2> QED
    BY <1>3, <2>1, <2>2, <2>3 DEF Kept
<1>7. Busy(d)' /\ d.step # "idle"
  BY <1>3, <1>4, <1>5, <1>6, AfterKeeps
<1> QED
  BY <1>2, <1>3, <1>4, <1>5, <1>7, StepKeeps DEF Types

\* The last step of a call: what it asked for is in force and saved.
LEMMA AnswerKeeps ==
    ASSUME Inv, NEW o \in Operator, Answer(o)
    PROVE  Inv'
<1>1. PICK c : c = call[o]
  OBVIOUS
<1>2. /\ Up /\ UNCHANGED <<process, page, mem, disk, failed, wanted>> /\ c.step = "answer"
      /\ acked' = wanted /\ call' = [call EXCEPT ![o] = Idle]
  BY <1>1 DEF Answer, At, files
<1>3. Busy(c) /\ c.file \in File /\ Types
  BY <1>1, <1>2, BusyNow
<1>4. mem = wanted /\ Kept(wanted)
  <2>1. \A f, v : One(c, f, v) => mem = wanted /\ Kept(wanted)
    BY <1>2 DEF One, Resting, Saving
  <2>2. \A v, m : Two(c, v, m) => mem = wanted /\ Kept(wanted)
    BY <1>2 DEF Two, Resting, Saving
  <2> QED
    BY <1>3, <2>1, <2>2 DEF Busy, InHand
<1>5. Restored' = Restored /\ Kept(mem)'
  BY <1>2, <1>4, SameFiles DEF Kept, Safe
<1>6. Types'
  BY <1>2, <1>3 DEF Types, Idle
<1>7. \A p \in Operator : call'[p].step = "idle"
  BY <1>2, <1>3 DEF Inv, Alone, Types, Idle
<1>8. InForce' /\ Up'
  BY <1>2, <1>4, <1>5 DEF InForce, Up, process
<1> QED
  BY <1>6, <1>7, <1>8 DEF Inv, Alone, AllIdle
-----------------------------------------------------------------------------
\* Pages, signals and time touch no call, no file and no setting.
LEMMA AroundKeeps ==
    ASSUME Inv, Up, Up', UNCHANGED <<mem, disk, failed, call, acked, wanted>>
    PROVE  Inv'
<1>1. \A c : Kept(c) => Kept(c)'
  BY SameFiles DEF Kept, Safe
<1>2. Types'
  BY DEF Inv, Types
<1>3. AllIdle => InForce'
  <2>1. Kept(mem) => Kept(mem)'
    BY <1>1
  <2> QED
    BY <2>1 DEF Inv, InForce
<1>4. ASSUME NEW c, Busy(c) PROVE Busy(c)'
  <2>1. \A v : Half(v)' = Half(v)
    BY DEF Half
  <2>2. Kept(acked) => Kept(acked)'
    BY <1>1
  <2>3. Kept(wanted) => Kept(wanted)'
    BY <1>1
  <2>4. \A v : Kept(Half(v)) => Kept(Half(v))'
    BY <1>1 DEF Half
  <2>5. ASSUME NEW f, NEW v, One(c, f, v) PROVE One(c, f, v)'
    BY <2>2, <2>3, <2>5 DEF One, Resting, Saving
  <2>6. ASSUME NEW v, NEW m, Two(c, v, m) PROVE Two(c, v, m)'
    BY <2>1, <2>2, <2>3, <2>4, <2>6 DEF Two, Resting, Saving
  <2>7. InHand(c)'
    BY <1>4, <2>5, <2>6 DEF Busy, InHand
  <2>8. Fetched(c)'
    BY <1>4 DEF Busy, Fetched
  <2> QED
    BY <1>4, <2>7, <2>8 DEF Busy
<1>5. AllIdle' <=> AllIdle
  BY DEF AllIdle
<1>6. \A o \in Operator : call'[o].step = "idle" \/ Busy(call[o])'
  BY <1>4 DEF Inv
<1> QED
  BY <1>2, <1>3, <1>5, <1>6 DEF Inv, Alone

LEMMA EnvironmentKeeps ==
    ASSUME Inv, Connect \/ Disconnect \/ Signal \/ Expire \/ ProxyDrained
    PROVE  Inv'
<1>1. UNCHANGED <<mem, disk, failed, call, acked, wanted>> /\ Up'
  BY DEF Inv, Connect, Disconnect, Signal, Expire, ProxyDrained, files, asked, process,
         Accepting, Up
<1>2. Up
  BY DEF Inv, Connect, Disconnect, Signal, Expire, ProxyDrained, Accepting, Up
<1> QED
  BY <1>1, <1>2, AroundKeeps

\* A request of the proxy that ends says nothing of the settings, and
\* neither does a step that changes nothing.
LEMMA QuietKeeps ==
    ASSUME Inv, Answered \/ UNCHANGED vars
    PROVE  Inv'
<1>1. UNCHANGED <<stage, expired, page, mem, disk, failed, call, acked, wanted>>
  BY DEF Answered, vars, process, files, asked
<1>2. CASE Up
  BY <1>1, <1>2, AroundKeeps DEF Inv, Up, Types
<1>3. CASE ~Up
  <2>1. Restored' = Restored /\ \A f : Safe(f)' <=> Safe(f)
    BY <1>1, SameFiles DEF Safe
  <2>2. CrashIsOldOrNew' /\ PlannedExitKeepsAll'
    BY <1>1, <1>3, <2>1 DEF Inv, CrashIsOldOrNew, PlannedExitKeepsAll
  <2> QED
    BY <1>1, <1>3, <2>2 DEF Inv, Types, Up, AllIdle, Alone
<1> QED
  BY <1>2, <1>3

\* What a crash finds while main runs.
LEMMA UpIsOldOrNew ==
    ASSUME Inv, Up PROVE CrashIsOldOrNew
<1>1. /\ "model" \in Field /\ "enabled" \in Field /\ (Safe("model") <=> Safe("enabled"))
      /\ acked = [f \in Field |-> acked[f]]
  <2>1. \A file \in File : "model" \in FieldsOf(file) <=> "enabled" \in FieldsOf(file)
    BY DEF File, FieldsOf
  <2>3. Safe("model") <=> Safe("enabled")
    BY <2>1 DEF Inv, Types, Safe
  <2> QED
    BY <2>3, ConfigShape DEF Inv, Types, Field
<1>2. Kept(acked) => CrashIsOldOrNew
  BY <1>1 DEF Kept, CrashIsOldOrNew
<1>3. Kept(wanted) => CrashIsOldOrNew
  BY <1>1 DEF Kept, CrashIsOldOrNew
<1>4. ASSUME NEW o \in Operator, Busy(call[o]) PROVE CrashIsOldOrNew
  <2>1. PICK c : c = call[o]
    OBVIOUS
  <2>2. ASSUME NEW f, NEW v, One(c, f, v) PROVE Kept(acked) \/ Kept(wanted)
    BY <2>2 DEF One, Resting, Saving
  <2>3. ASSUME NEW v, NEW m, Two(c, v, m) PROVE CrashIsOldOrNew
    <3>1. PICK half : half = Half(v)
      OBVIOUS
    <3>2. Kept(acked) \/ Kept(wanted) \/ Kept(half)
      BY <2>3, <3>1 DEF Two, Resting, Saving
    <3>3. CASE Kept(half)
      <4>1. wanted["enabled"] = v /\ half["enabled"] = v
        BY <1>1, <2>3, <3>1 DEF Two, Half, Field
      <4>2. \A f \in Field \ {"enabled"} : half[f] = acked[f]
        BY <1>1, <3>1 DEF Half
      <4> QED
        BY <1>1, <3>3, <4>1, <4>2 DEF Kept, CrashIsOldOrNew
    <3> QED
      BY <1>2, <1>3, <3>2, <3>3
  <2> QED
    BY <1>2, <1>3, <1>4, <2>1, <2>2, <2>3 DEF Busy, InHand
<1>5. AllIdle => CrashIsOldOrNew
  BY <1>2 DEF Inv, InForce
<1> QED
  BY <1>4, <1>5 DEF Inv, AllIdle

LEMMA DiesKeeps ==
    ASSUME Inv, Exit \/ Crash
    PROVE  Inv'
<1>1. /\ Up /\ stage' \in {"exited", "crashed"} /\ UNCHANGED <<expired, disk, failed, acked, wanted>>
      /\ page' = FALSE /\ mem' = Default
      /\ call' = [o \in Operator |-> Idle]
      /\ stage' = "exited" => Exit
  BY DEF Exit, Crash, Dies, Up, files, asked
<1>2. Restored' = Restored /\ \A f : Safe(f)' <=> Safe(f)
  BY <1>1, SameFiles DEF Safe
<1>3. CrashIsOldOrNew'
  BY <1>1, <1>2, UpIsOldOrNew DEF CrashIsOldOrNew
<1>4. PlannedExitKeepsAll'
  <2> SUFFICES ASSUME stage' = "exited", ~expired
               PROVE  \A f \in Field : Safe(f) => Restored[f] = wanted[f]
    BY <1>1, <1>2 DEF PlannedExitKeepsAll
  <2>1. AllIdle
    BY <1>1 DEF Exit, AllIdle
  <2> QED
    BY <1>1, <2>1 DEF Inv, InForce, Kept
<1>5. Types'
  BY <1>1, DefaultIsConfig DEF Inv, Types, Idle
<1> QED
  BY <1>1, <1>3, <1>4, <1>5 DEF Inv, Alone, Up, AllIdle, Idle

\* A restart puts in force what the files hold.
LEMMA RestartKeeps ==
    ASSUME Inv, Restart PROVE Inv'
<1>1. /\ ~Up /\ Up' /\ mem' = Restored /\ acked' = Restored /\ wanted' = Restored
      /\ failed' = {} /\ UNCHANGED <<page, disk, call>>
  BY DEF Restart, RestartWith, Up
<1>2. Restored' = Restored
  BY <1>1, SameFiles
<1>3. Restored \in Config
  BY RestoredIsConfig DEF Inv
<1>4. Kept(mem)'
  BY <1>1, <1>2 DEF Kept
<1>5. Types'
  BY <1>1, <1>3 DEF Inv, Types
<1> QED
  BY <1>1, <1>4, <1>5 DEF Inv, Alone, InForce, AllIdle

LEMMA NextInv == Inv /\ [Next]_vars => Inv'
<1> SUFFICES ASSUME Inv, [Next]_vars PROVE Inv'
  OBVIOUS
<1>1. ASSUME NEW o \in Operator, NEW q \in Request, Begin(o, q) PROVE Inv'
  BY <1>1, BeginKeeps
<1>2. ASSUME NEW o \in Operator, Assign(o) PROVE Inv'
  BY <1>2, AssignKeeps
<1>3. ASSUME NEW o \in Operator, Save(o) PROVE Inv'
  BY <1>3, SaveKeeps
<1>4. ASSUME NEW o \in Operator, Write(o) PROVE Inv'
  BY <1>4, WriteKeeps
<1>5. ASSUME NEW o \in Operator, WriteFails(o) PROVE Inv'
  BY <1>5, WriteFailsKeeps
<1>6. ASSUME NEW o \in Operator, Answer(o) PROVE Inv'
  BY <1>6, AnswerKeeps
<1>7. CASE Connect \/ Disconnect \/ Signal \/ Expire \/ ProxyDrained
  BY <1>7, EnvironmentKeeps
<1>8. CASE Answered \/ UNCHANGED vars
  BY <1>8, QuietKeeps
<1>9. CASE Exit \/ Crash
  BY <1>9, DiesKeeps
<1>10. CASE Restart
  BY <1>10, RestartKeeps
<1> QED
  BY <1>1, <1>2, <1>3, <1>4, <1>5, <1>6, <1>7, <1>8, <1>9, <1>10 DEF Next, Handler

\* What TypeOK says besides Inv.
Shape ==
    /\ stage \in {"serving", "draining", "closing", "exited", "crashed"}
    /\ expired \in BOOLEAN /\ proxied \in BOOLEAN /\ page \in BOOLEAN
    /\ \A o \in Operator : call[o].step = "idle" => call[o] = Idle

LEMMA NextShape == Inv /\ Shape /\ [Next]_vars => Shape'
<1> SUFFICES ASSUME Inv, Shape, [Next]_vars PROVE Shape'
  OBVIOUS
<1> DEFINE Ends(o) == call' = [call EXCEPT ![o] = Idle]
           Goes(o) == \E d : d.step # "idle" /\ call' = [call EXCEPT ![o] = d]
<1>1. DOMAIN call = Operator
  BY DEF Inv, Types
<1>2. ASSUME NEW o \in Operator, Goes(o) \/ Ends(o), UNCHANGED <<process, page>>
      PROVE  Shape'
  BY <1>1, <1>2 DEF Shape, process
<1>3. ASSUME NEW o \in Operator, NEW q \in Request, Begin(o, q) PROVE Shape'
  <2>1. Goes(o)
    BY <1>3 DEF Begin
  <2> QED
    BY <1>2, <1>3, <2>1 DEF Begin
<1>4. ASSUME NEW o \in Operator, Assign(o) PROVE Shape'
  <2>1. call'[o].step \in {"read", "write"} /\ call' = [call EXCEPT ![o] = call'[o]]
    BY <1>4, AssignStep DEF Frame
  <2> QED
    BY <1>2, <1>4, <2>1 DEF Assign
<1>5. ASSUME NEW o \in Operator, Save(o) PROVE Shape'
  <2>1. call'[o].step \in {"read", "write"} /\ call' = [call EXCEPT ![o] = call'[o]]
    BY <1>5, SaveStep DEF Frame
  <2> QED
    BY <1>2, <1>5, <2>1 DEF Save
<1>6. ASSUME NEW o \in Operator, Write(o) \/ WriteFails(o) PROVE Shape'
  <2>1. call' = [call EXCEPT ![o] = AfterWrite(@)] /\ UNCHANGED <<process, page>>
    BY <1>6 DEF Write, WriteFails
  <2>2. call'[o].step \in {"assign", "answer"} /\ call' = [call EXCEPT ![o] = call'[o]]
    BY <2>1, AfterWriteStep DEF Frame, After
  <2> QED
    BY <1>2, <2>1, <2>2
<1>7. ASSUME NEW o \in Operator, Answer(o) PROVE Shape'
  BY <1>2, <1>7 DEF Answer
<1>8. CASE Connect \/ Disconnect \/ Signal \/ Answered \/ Expire \/ ProxyDrained
  BY <1>8 DEF Shape, Connect, Disconnect, Signal, Answered, Expire, ProxyDrained, process
<1>9. CASE Exit \/ Crash
  BY <1>9 DEF Shape, Exit, Crash, Dies
<1>10. CASE Restart
  BY <1>10 DEF Shape, Restart, RestartWith
<1>11. CASE UNCHANGED vars
  BY <1>11 DEF Shape, vars, process
<1> QED
  BY <1>3, <1>4, <1>5, <1>6, <1>7, <1>8, <1>9, <1>10, <1>11 DEF Next, Handler

LEMMA InvTyped == Inv /\ Shape => TypeOK
<1> SUFFICES ASSUME Inv, Shape PROVE TypeOK
  OBVIOUS
<1>1. ASSUME NEW o \in Operator
      PROVE  /\ call[o].step \in {"idle", "assign", "read", "write", "answer"}
             /\ call[o].file \in File \cup {None}
             /\ Len(call[o].sets) <= 2 /\ Len(call[o].left) <= 2
  <2>1. PICK c : c = call[o]
    OBVIOUS
  <2>2. CASE c = Idle
    BY <2>1, <2>2 DEF Idle
  <2>3. CASE Busy(c)
    <3>1. /\ c.step \in {"assign", "read", "write", "answer"}
          /\ Len(c.sets) <= 2
      <4>1. \A x, y : Len(<< >>) <= 2 /\ Len(<<x>>) <= 2 /\ Len(<<x, y>>) <= 2
        OBVIOUS
      <4>2. ASSUME NEW f, NEW v, One(c, f, v) PROVE <3>1!:
        <5>1. /\ c.step \in {"assign", "read", "write", "answer"}
              /\ c.sets = << >> \/ c.sets = <<Set(f, v)>>
          BY <4>2 DEF One, Resting, Saving
        <5> QED
          BY <4>1, <5>1
      <4>3. ASSUME NEW v, NEW m, Two(c, v, m) PROVE <3>1!:
        <5>1. /\ c.step \in {"assign", "read", "write", "answer"}
              /\ \/ c.sets = << >> \/ c.sets = <<Set("model", m)>>
                 \/ c.sets = <<Set("enabled", v), Set("model", m)>>
          BY <4>3 DEF Two, Resting, Saving
        <5> QED
          BY <4>1, <5>1
      <4> QED
        BY <2>3, <4>2, <4>3 DEF Busy, InHand
    <3>2. Len(c.left) <= 2
      <4>1. c.left \in {<< >>, <<"enabled">>, <<"intercept">>, <<"model", "enabled">>}
        BY <2>3, <3>1 DEF Busy, Fetched, SaveOrder
      <4>2. \A x, y : Len(<< >>) <= 2 /\ Len(<<x>>) <= 2 /\ Len(<<x, y>>) <= 2
        OBVIOUS
      <4> QED
        BY <4>1, <4>2
    <3> QED
      BY <2>1, <2>3, <3>1, <3>2 DEF Busy
  <2> QED
    BY <2>1, <2>2, <2>3 DEF Inv, Shape, AllIdle
<1> QED
  BY <1>1 DEF Inv, Types, Shape, TypeOK

LEMMA InvHolds == Alone => (Init /\ [][Next]_vars => [](Inv /\ Shape))
<1>1. Alone /\ Init => Inv /\ Shape
  BY InitInv DEF Init, Shape
<1>2. Inv /\ Shape /\ [Next]_vars => (Inv /\ Shape)'
  BY NextInv, NextShape
<1> QED
  BY <1>1, <1>2, PTL

LEMMA InvGives ==
    Inv => SettledSurvives /\ CrashIsOldOrNew /\ PlannedExitKeepsAll
<1> SUFFICES ASSUME Inv
             PROVE  SettledSurvives /\ CrashIsOldOrNew /\ PlannedExitKeepsAll
  OBVIOUS
<1>1. Quiet => InForce
  BY DEF Inv, Quiet, AllIdle
<1>2. SettledSurvives
  BY <1>1 DEF SettledSurvives, InForce, Kept
<1>3. CrashIsOldOrNew
  BY UpIsOldOrNew DEF Inv
<1>4. PlannedExitKeepsAll
  BY DEF Inv, PlannedExitKeepsAll, Up
<1> QED
  BY <1>2, <1>3, <1>4
-----------------------------------------------------------------------------
\* Every variable keeps its type.
THEOREM TypeCorrect == Alone => (Spec => []TypeOK)
<1>1. Inv /\ Shape => TypeOK
  BY InvTyped
<1> QED
  BY <1>1, InvHolds, PTL DEF Spec

\* Wherever a crash comes in an admin call, also between the two saves of
\* one POST /admin/fallback, every field is restored as it was before the
\* call or as the call wants it, and never the new model without the toggle.
THEOREM CrashSafe == Alone => (Spec => []CrashIsOldOrNew)
<1>1. Inv => CrashIsOldOrNew
  BY InvGives
<1> QED
  BY <1>1, InvHolds, PTL DEF Spec

\* Between two calls a restart restores exactly what is in force.
THEOREM Survives == Alone => (Spec => []SettledSurvives)
<1>1. Inv => SettledSurvives
  BY InvGives
<1> QED
  BY <1>1, InvHolds, PTL DEF Spec

\* A shutdown within its deadline loses nothing the operator has asked for.
THEOREM PlannedExit == Alone => (Spec => []PlannedExitKeepsAll)
<1>1. Inv => PlannedExitKeepsAll
  BY InvGives
<1> QED
  BY <1>1, InvHolds, PTL DEF Spec
=============================================================================
