------------------------- MODULE ConversationProofs -------------------------
(***************************************************************************)
(* A call after a call: what holds of a caller's conversation with a       *)
(* machine.                                                                *)
(*                                                                         *)
(* First, that every call of a conversation keeps the promises of a single *)
(* call, whatever the calls before it went through.  Then a rule for what  *)
(* a conversation does to its session: a proof outline writes down, for    *)
(* each state of the graph, the sessions a call may have there, and is     *)
(* checked hop by hop on the graph and its callbacks, without the engine.  *)
(* At last the outlines of the three examples, and what follows for them.  *)
(***************************************************************************)
EXTENDS PyMachineProofs, Examples

----------------------------------------------------------------------------

(* All that was found of a call while it runs. *)
CallOK ==
  /\ TypeOK /\ ControlOK /\ FailureOK
  /\ RoundOK /\ LifecycleOK /\ TraceOK /\ BatchOfGraph /\ PathOnGraph

LEMMA CallBegins == Fresh => CallOK
BY FreshOK, FailureInit, RoundInit, LifecycleInit, TraceInit, NoBatch, PathBegins DEF CallOK

LEMMA CallGoesOn == CallOK /\ [Next]_vars => CallOK'
<1> SUFFICES ASSUME CallOK, [Next]_vars PROVE CallOK'
  OBVIOUS
<1>1. TypeOK' /\ ControlOK'
  BY StepOK DEF CallOK
<1>2. FailureOK' /\ RoundOK'
  BY <1>1, FailureStep, RoundStep DEF CallOK
<1>3. LifecycleOK' /\ TraceOK' /\ BatchOfGraph' /\ PathOnGraph'
  BY <1>1, LifecycleStep, TraceStep, BatchKept, PathStep DEF CallOK
<1>4. QED BY <1>1, <1>2, <1>3 DEF CallOK

LEMMA CallTells ==
  CallOK => /\ NoFailureSwallowed /\ FirstPassingCandidate /\ SettledBetweenSignals
            /\ LifecycleFollowsHistory /\ ValidatedNeverUnregistered
            /\ TraceTellsTheCall
BY FailuresTell, RoundsTell, LifecycleTells, NamesTell, ReportTells DEF CallOK

(* Every talk starts in a state of its machine. *)
StartsKnown ==
  \A t \in Talks :
    /\ t.start \in DOMAIN t.config
    /\ \A s \in DOMAIN t.config : t.config[s].error_state # ""

(* The caller talks to one of its machines, and the call under way started *)
(* in the state the caller believes it is in.                              *)
InTalk ==
  /\ \E t \in Talks : t.config = config
  /\ state_name \in STRING /\ history[1] = state_name
  /\ StartsKnown => state_name \in DOMAIN config

(* What a call returns is a state of the graph, if the name it was given is. *)
LEMMA NameKept ==
  ASSUME CallOK, InTalk
  PROVE  /\ Kept \in STRING
         /\ StartsKnown => Kept \in DOMAIN config /\ current_state \in DOMAIN config
<1>1. current_state \in STRING /\ Len(history) \in 1 .. Len(history) /\ current_state = history[Len(history)]
  BY LenProperties DEF CallOK, TypeOK, ContextOK
<1>2. DOMAIN history = 1 .. Len(history)
  BY LenProperties DEF CallOK, TypeOK, ContextOK
<1>3. StartsKnown => current_state \in DOMAIN config
  <2>1. StartsKnown => ErrorStatesNamed /\ history[1] \in DOMAIN config
    BY DEF StartsKnown, InTalk, ErrorStatesNamed
  <2>2. QED BY <1>1, <1>2, <2>1 DEF CallOK, PathOnGraph
<1>4. QED BY <1>1, <1>3 DEF Kept, InTalk

(* The next call begins like the first, on the session that was left. *)
LEMMA NextCallFresh ==
  ASSUME CallOK, InTalk, NextCall
  PROVE  Fresh'
<1>1. Talk \in Talks
  BY DEF InTalk, Talk
<1>2. events' \in Inputs
  BY <1>1, TalkAssumption DEF NextCall
<1>3. ArgsOK'
  BY <1>2 DEF NextCall, CallOK, TypeOK, ArgsOK
<1>4. Kept \in STRING
  BY NameKept
<1>5. QED BY <1>3, <1>4 DEF NextCall, Fresh, CallOK, TypeOK, ContextOK

LEMMA ConversationBegins == ConversationInit => CallOK /\ InTalk
<1> SUFFICES ASSUME ConversationInit PROVE CallOK /\ InTalk
  OBVIOUS
<1>1. Fresh
  BY InitFresh DEF ConversationInit
<1>2. history[1] = state_name /\ state_name \in STRING
  BY <1>1 DEF Fresh, ConversationInit
<1>3. PICK t \in Talks : t.config = config /\ t.start = current_state
  BY DEF ConversationInit
<1>4. QED BY <1>1, <1>2, <1>3, CallBegins DEF ConversationInit, InTalk, StartsKnown

(* Every step of a conversation is one of its calls', or begins the next.  *)
LEMMA TalkGoesOn ==
  CallOK /\ InTalk /\ [ConversationNext]_<<vars, state_name>> => InTalk' /\ ([Next]_vars \/ Fresh')
<1> SUFFICES ASSUME CallOK, InTalk, [ConversationNext]_<<vars, state_name>>
             PROVE  InTalk' /\ ([Next]_vars \/ Fresh')
  OBVIOUS
<1>1. CASE NextCall
  <2>1. state_name' = Kept /\ history' = <<Kept>> /\ config' = config
    BY <1>1 DEF NextCall
  <2>2. InTalk'
    BY <2>1, NameKept DEF InTalk, StartsKnown
  <2>3. QED BY <1>1, <2>2, NextCallFresh
<1>2. CASE Step
  <2>1. config' = config /\ state_name' = state_name
    BY <1>2, StepKeepsGraph DEF Step
  <2>2. history'[1] = history[1]
    BY <1>2, PathStarts DEF Step, CallOK
  <2>3. QED BY <1>2, <2>1, <2>2 DEF Step, InTalk, StartsKnown
<1>3. CASE UNCHANGED <<vars, state_name>>
  BY <1>3 DEF InTalk, vars, argVars, ctxVars
<1>4. QED BY <1>1, <1>2, <1>3 DEF ConversationNext

(***************************************************************************)
(* Whatever a conversation went through before - calls that returned,      *)
(* calls that raised or were cancelled half way, on a session that their   *)
(* callbacks have changed - the call under way keeps every promise that a  *)
(* single call of run makes: TypeOK, ControlOK and the strengthenings are  *)
(* invariants of a conversation of any length.                             *)
(***************************************************************************)
THEOREM CallsInARow == ConversationSpec => [](CallOK /\ InTalk)
<1>1. CallOK /\ InTalk /\ [ConversationNext]_<<vars, state_name>> => CallOK' /\ InTalk'
  <2>1. Fresh' => CallOK'
    BY CallBegins, PTL
  <2>2. QED BY <2>1, CallGoesOn, TalkGoesOn
<1>2. QED BY <1>1, ConversationBegins, PTL DEF ConversationSpec

(* The promises, for every call of every conversation.                     *)
THEOREM ConversationKeepsPromises ==
  ConversationSpec => [](/\ NoFailureSwallowed /\ FirstPassingCandidate /\ SettledBetweenSignals
                         /\ LifecycleFollowsHistory /\ ValidatedNeverUnregistered
                         /\ TraceTellsTheCall)
BY CallsInARow, CallTells, PTL

(* If every talk starts in a state of its machine, the caller never holds  *)
(* the name of a state that its machine does not have: not after a call    *)
(* that failed, was routed to an error state or was cancelled half way.    *)
THEOREM NamesStayOnGraph ==
  ASSUME StartsKnown
  PROVE  ConversationSpec => [](state_name \in DOMAIN config /\ current_state \in DOMAIN config)
<1>1. CallOK /\ InTalk => state_name \in DOMAIN config /\ current_state \in DOMAIN config
  BY NameKept DEF InTalk
<1>2. QED BY <1>1, CallsInARow, PTL

-----------------------------------------------------------------------------
(***************************************************************************)
(* Proof outlines.  For a graph c, at[q] are the sessions a call may have  *)
(* when it rests in q or looks for a way on, into[q] those it may bring to *)
(* q, before the entry actions of q, and lost[q] those left when a signal  *)
(* that was dispatched in q fails; level[q] bounds the always hops that    *)
(* led to q.  Such an outline is checked on the graph and what its         *)
(* callbacks may do; the steps of the engine do not occur in it.           *)
(***************************************************************************)

(* The guard of t may give this answer. *)
MayAnswer(t, s, d, answer) ==
  \E o \in GuardFns[t.guard][<<s, d>>] : o.raises = None /\ o.value = answer

MayPass(t, s, d) == t.guard = None \/ MayAnswer(t, s, d, TRUE)

MayRefuse(t, s) == t.guard # None /\ MayAnswer(t, s, "", FALSE)

(* The sessions in which t may be taken from q. *)
Leaving(at, q, t, d) == {s \in at[q] : MayPass(t, s, d)}

(* Run one after the other on a session of from, these actions end in to;  *)
(* all but the last stay within from; one that raises leaves a session of  *)
(* back.                                                                   *)
Leads(names, from, to, back, d) ==
  /\ names = <<>> => from \subseteq to
  /\ \A i \in DOMAIN names, s \in from :
       /\ names[i] \in DOMAIN ActionFns
       /\ \A o \in ActionFns[names[i]][<<s, d>>] :
            o.session \in IF o.raises # None THEN back
                          ELSE IF i < Len(names) THEN from ELSE to

(* A hop from q by t: its own actions, then the entry actions of its target. *)
HopLeads(c, at, into, q, t, back, d) ==
  /\ Leads(t.actions, Leaving(at, q, t, d), into[t.target], back, d)
  /\ Leads(c[t.target].entry, into[t.target], at[t.target], back, d)

(* Guards are registered and change nothing; states have no exit actions.  *)
GuardsLook(c) ==
  \A q \in DOMAIN c :
    /\ c[q].exit = <<>>
    /\ \A t \in AllCandidates(c, q) : t.guard # None =>
         /\ t.guard \in DOMAIN GuardFns
         /\ \A s \in Sessions, d \in Data : \A o \in GuardFns[t.guard][<<s, d>>] : o.session = s

OnOutlined(c, at, into, lost) ==
  \A q \in DOMAIN c, d \in Data : \A t \in OnCandidates(c, q) :
    /\ HopLeads(c, at, into, q, t, lost[q], d)
    /\ t.guard # None =>
         \A s \in at[q] : \A o \in GuardFns[t.guard][<<s, d>>] :
           o.raises # None \/ o.value = None => s \in lost[q]

(* The caller still holds the name of the state a failed signal met, unless *)
(* it has an error state that can go on from there.                         *)
ErrorOutlined(c, at, into, lost) ==
  \A q \in DOMAIN c :
    /\ lost[q] \subseteq at[q]
    /\ c[q].error_state # None =>
         /\ c[q].error_state \in DOMAIN c
         /\ lost[q] \subseteq into[c[q].error_state]
         /\ \A d \in Data :
              Leads(c[c[q].error_state].entry, into[c[q].error_state],
                    at[c[q].error_state], lost[q], d)

(* A cascade of always hops never fails, always finds a way on, and stays  *)
(* below the cap.                                                          *)
AlwaysOutlined(c, at, into, level) ==
  \A q \in DOMAIN c :
    /\ level[q] \in 0 .. MaxDepth - 1
    /\ \A t \in Elements(c[q].always) :
         /\ HopLeads(c, at, into, q, t, {}, "")
         /\ level[q] < level[t.target]
         /\ t.guard # None =>
              \A s \in at[q] : \A o \in GuardFns[t.guard][<<s, "">>] :
                o.raises = None /\ o.value # None
    /\ c[q].always # <<>> =>
         \A s \in at[q] : \E t \in Elements(c[q].always) : ~MayRefuse(t, s)

(* Talks start at rest. *)
Begins(c, at) ==
  \A t \in Talks : t.config = c =>
    t.start \in DOMAIN c /\ c[t.start].always = <<>> /\ t.session \in at[t.start]

Outlined(c, at, into, lost, level) ==
  /\ GuardsLook(c) /\ Begins(c, at)
  /\ OnOutlined(c, at, into, lost) /\ ErrorOutlined(c, at, into, lost)
  /\ AlwaysOutlined(c, at, into, level)

-----------------------------------------------------------------------------
(***************************************************************************)
(* What a conversation keeps when it follows an outline.                   *)
(***************************************************************************)

(* One signal a call.  The caller holds the name of a state at rest, and   *)
(* the signal is dispatched there.                                         *)
SignalOK ==
  /\ Len(events) = 1
  /\ state_name \in DOMAIN config /\ config[state_name].always = <<>>
  /\ dispatched = state_name
  /\ current_state \in DOMAIN config
  /\ taken = 0 => current_state = state_name /\ pc \in {"always", "dispatch"}

(* A call that returns has come to rest; only hops on signals fail.        *)
RestOK ==
  /\ pc \in {"catch", "raised"} => exc # None
  /\ pc = "returned" => exc = None
  /\ hook = "always" => exc = None
  /\ pc \in {"dispatch", "returned"} => config[current_state].always = <<>>
  /\ pc = "close" /\ exc = None /\ ~fired => hook = "on"
  /\ pc = "guard" /\ hook = "always" =>
       cands # <<>> /\ \A j \in 1 .. ci - 1 : MayRefuse(cands[j], session)

LevelOK(level) ==
  /\ hook # "always" \/ taken = 0 => depth = 0
  /\ hook = "always" => (IF fired THEN depth + 1 ELSE depth) <= level[current_state]

(* b is what remains of names. *)
Remains(b, names) ==
  /\ Len(b) <= Len(names)
  /\ \A i \in 1 .. Len(b) : b[i] = names[Len(names) - Len(b) + i]

(* What a callback that raises leaves. *)
Back(lost) == IF hook = "always" THEN {} ELSE lost[state_name]

BatchOK(at, into, lost) ==
  /\ pc = "actions" => Remains(batch, Candidate.actions)
  /\ pc = "exit" => batch = <<>>
  /\ pc = "entry" =>
       /\ Remains(batch, config[current_state].entry)
       /\ Leads(config[current_state].entry, into[current_state], at[current_state],
                Back(lost), Signal.data)

(* The sessions the outline allows at this point of the call. *)
Allowed(at, into, lost) ==
  IF exc # None THEN lost[state_name]
  ELSE IF pc = "actions" /\ batch # <<>> THEN Leaving(at, current_state, Candidate, Signal.data)
  ELSE IF pc \in {"actions", "exit"} THEN into[Target]
  ELSE IF pc = "entry" /\ batch # <<>> THEN into[current_state]
  ELSE at[current_state]

Follows(at, into, lost, level) ==
  /\ SignalOK /\ RestOK /\ LevelOK(level) /\ BatchOK(at, into, lost)
  /\ session \in Allowed(at, into, lost)

(* The premises of every step below. *)
Under(at, into, lost, level) ==
  /\ CallOK
  /\ AccessorsRead /\ Outlined(config, at, into, lost, level)
  /\ Follows(at, into, lost, level)

-----------------------------------------------------------------------------
(* Sequences of names, and what running one does *)

LEMMA AllRemains ==
  ASSUME NEW names \in Seq(STRING)
  PROVE  Remains(names, names) /\ Remains(<<>>, names)
<1>1. Len(names) \in Nat /\ Len(<<>>) = 0
  BY LenProperties, EmptySeq
<1>2. \A i \in 1 .. Len(names) : Len(names) - Len(names) + i = i
  BY <1>1
<1>3. QED BY <1>1, <1>2 DEF Remains

LEMMA NextOfBatch ==
  ASSUME NEW names \in Seq(STRING), NEW b \in Seq(STRING), Remains(b, names), b # <<>>
  PROVE  /\ Remains(Tail(b), names)
         /\ \E i \in DOMAIN names : Head(b) = names[i] /\ (i < Len(names) <=> Tail(b) # <<>>)
<1>1. /\ Len(b) \in Nat /\ Len(b) > 0 /\ Len(names) \in Nat /\ DOMAIN names = 1 .. Len(names)
      /\ Head(b) = b[1]
      /\ Tail(b) \in Seq(STRING) /\ Len(Tail(b)) = Len(b) - 1
      /\ \A i \in 1 .. Len(b) - 1 : Tail(b)[i] = b[i + 1]
  BY HeadTailProperties, LenProperties, EmptySeq
<1> DEFINE k == Len(names) - Len(b) + 1
<1>2. k \in DOMAIN names /\ b[1] = names[k]
  BY <1>1 DEF Remains
<1>3. Tail(b) # <<>> <=> Len(Tail(b)) > 0
  <2> DEFINE rest == Tail(b)
  <2>1. rest \in Seq(STRING) /\ Len(rest) \in Nat
    BY <1>1, LenProperties
  <2> HIDE DEF rest
  <2>2. rest = <<>> <=> Len(rest) = 0
    BY <2>1, EmptySeq
  <2>3. QED BY <2>1, <2>2 DEF rest
<1>4. Remains(Tail(b), names)
  <2>1. Len(b) - 1 <= Len(names)
    BY <1>1 DEF Remains
  <2>2. ASSUME NEW i \in 1 .. Len(b) - 1
        PROVE  Tail(b)[i] = names[Len(names) - (Len(b) - 1) + i]
    <3>1. i + 1 \in 1 .. Len(b) /\ Len(names) - Len(b) + (i + 1) = Len(names) - (Len(b) - 1) + i
      BY <1>1
    <3>2. b[i + 1] = names[Len(names) - Len(b) + (i + 1)]
      BY <3>1 DEF Remains
    <3>3. QED BY <1>1, <3>1, <3>2
  <2>3. QED BY <1>1, <2>1, <2>2 DEF Remains
<1>5. k < Len(names) <=> Tail(b) # <<>>
  BY <1>1, <1>3
<1> HIDE DEF k
<1>6. QED BY <1>1, <1>2, <1>4, <1>5

(* One action more, of those that lead from from to to. *)
LEMMA ActionLeads ==
  ASSUME NEW names \in Seq(STRING), NEW b \in Seq(STRING), Remains(b, names), b # <<>>,
         NEW from, NEW to, NEW back, NEW d, Leads(names, from, to, back, d),
         NEW s \in from
  PROVE  /\ Head(b) \in DOMAIN ActionFns
         /\ \A o \in ActionFns[Head(b)][<<s, d>>] :
              o.session \in IF o.raises # None THEN back
                            ELSE IF Tail(b) # <<>> THEN from ELSE to
<1>1. PICK i \in DOMAIN names : Head(b) = names[i] /\ (i < Len(names) <=> Tail(b) # <<>>)
  BY NextOfBatch
<1>2. /\ names[i] \in DOMAIN ActionFns
      /\ \A o \in ActionFns[names[i]][<<s, d>>] :
           o.session \in IF o.raises # None THEN back
                         ELSE IF i < Len(names) THEN from ELSE to
  BY DEF Leads
<1>3. QED BY <1>1, <1>2

----------------------------------------------------------------------------
(* What the outline says of the hop in progress *)

(* Nothing fails outside of the callbacks. *)
LEMMA AccessorsHold ==
  ASSUME NEW at, NEW into, NEW lost, NEW level, Under(at, into, lost, level)
  PROVE  ~AccessorFails
BY CallAssumption DEF Under, CallOK, AccessorsRead, AccessorFails, CurrentStateDict,
   TypeOK, ArgsOK, ContextOK, IsStream

LEMMA GraphChecked ==
  ASSUME TypeOK
  PROVE  IsConfig(config) /\ BadTargets(config) = {}
BY ConfigAssumption DEF TypeOK, ArgsOK

(* The candidate under trial: where it stands, and that it leads on. *)
LEMMA CandidateLeads ==
  ASSUME NEW at, NEW into, NEW lost, NEW level, Under(at, into, lost, level),
         pc \in {"guard", "actions", "exit"}, hook # "error", ci <= Len(cands)
  PROVE  /\ current_state \in DOMAIN config
         /\ Candidate \in AllCandidates(config, current_state)
         /\ Candidate.target \in DOMAIN config
         /\ HopLeads(config, at, into, current_state, Candidate, Back(lost), Signal.data)
         /\ hook = "always" => /\ Candidate \in Elements(Always)
                               /\ level[current_state] < level[Candidate.target]
         /\ hook = "on" => /\ current_state = state_name
                           /\ Candidate \in OnCandidates(config, current_state)
<1>1. /\ TypeOK /\ ControlOK /\ ~fired /\ Busy /\ pc # "catch" /\ ci \in DOMAIN cands
      /\ Signal.data \in Data
  BY CandidateType, LenProperties, SignalType
  DEF Under, CallOK, ControlOK, Busy, TypeOK, LocalsOK
<1>2. CASE hook = "on"
  <2>1. /\ cands = Lookup(config, dispatched, events[taken].event)
        /\ current_state = dispatched /\ dispatched = state_name
    BY <1>1, <1>2 DEF ControlOK, OnControl, Under, Follows, SignalOK
  <2>2. cands # <<>>
    BY <1>1
  <2>3. /\ current_state \in DOMAIN config
        /\ Candidate \in OnCandidates(config, current_state)
        /\ Candidate \in AllCandidates(config, current_state)
    BY <1>1, <2>1, <2>2, LookedUpIsCandidate DEF Candidate
  <2>4. HopLeads(config, at, into, current_state, Candidate, lost[current_state], Signal.data)
    BY <1>1, <2>3 DEF Under, Outlined, OnOutlined
  <2>5. Back(lost) = lost[current_state]
    BY <1>2, <2>1 DEF Back
  <2>6. Candidate.target \in DOMAIN config
    BY <1>1, <2>3, GraphChecked, CheckedTargets
  <2>7. QED BY <1>2, <2>1, <2>3, <2>4, <2>5, <2>6
<1>3. CASE hook = "always"
  <2>1. current_state \in DOMAIN config /\ cands = Always
    BY <1>1, <1>3 DEF ControlOK, AlwaysControl
  <2>2. Candidate \in Elements(config[current_state].always)
    BY <1>1, <2>1 DEF Candidate, Always, Elements
  <2>3. Candidate \in AllCandidates(config, current_state)
    BY <2>2 DEF AllCandidates
  <2>4. /\ HopLeads(config, at, into, current_state, Candidate, {}, "")
        /\ level[current_state] < level[Candidate.target]
    BY <2>1, <2>2 DEF Under, Outlined, AlwaysOutlined
  <2>5. Back(lost) = {} /\ Signal.data = ""
    BY <1>3, Zenon DEF Back, Signal, AlwaysSignal
  <2>6. Candidate.target \in DOMAIN config
    BY <1>1, <2>1, <2>3, GraphChecked, CheckedTargets
  <2>7. QED BY <1>3, <2>1, <2>2, <2>3, <2>4, <2>5, <2>6 DEF Always
<1>4. QED BY <1>1, <1>2, <1>3 DEF TypeOK, LocalsOK, Hooks

(* The error state of the state that took the signal. *)
LEMMA RecoveryLeads ==
  ASSUME NEW at, NEW into, NEW lost, NEW level, Under(at, into, lost, level),
         Busy, hook \in {"on", "error"}, RecoveryState # None
  PROVE  /\ RecoveryState \in DOMAIN config
         /\ lost[state_name] \subseteq into[RecoveryState]
         /\ Leads(config[RecoveryState].entry, into[RecoveryState], at[RecoveryState],
                  lost[state_name], Signal.data)
<1>1. dispatched = state_name /\ state_name \in DOMAIN config
  BY DEF Under, Follows, SignalOK
<1>2. Signal.data \in Data
  BY SignalType DEF Under, CallOK
<1>3. config[state_name].error_state = RecoveryState
  BY <1>1 DEF RecoveryState
<1>4. QED BY <1>1, <1>2, <1>3 DEF Under, Outlined, ErrorOutlined

(* Where the hop goes. *)
LEMMA TargetLeads ==
  ASSUME NEW at, NEW into, NEW lost, NEW level, Under(at, into, lost, level), pc = "exit"
  PROVE  /\ current_state \in DOMAIN config
         /\ Target \in DOMAIN config
         /\ Leads(config[Target].entry, into[Target], at[Target], Back(lost), Signal.data)
         /\ hook = "always" => level[current_state] < level[Target]
<1>1. CASE hook = "error"
  <2>1. RecoveryState # None /\ Busy /\ current_state \in DOMAIN config
    BY <1>1 DEF Under, CallOK, ControlOK, ErrorControl, Busy
  <2>2. Back(lost) = lost[state_name] /\ Target = RecoveryState
    BY <1>1 DEF Back, Target
  <2>3. QED BY <1>1, <2>1, <2>2, RecoveryLeads
<1>2. CASE hook # "error"
  <2>1. ci <= Len(cands)
    BY <1>2 DEF Under, CallOK, ControlOK, CandidateControl
  <2>2. QED BY <1>2, <2>1, CandidateLeads DEF HopLeads, Target
<1>3. QED BY <1>1, <1>2

----------------------------------------------------------------------------
(* Before a round *)

LEMMA LevelBounded ==
  ASSUME NEW at, NEW into, NEW lost, NEW level,
         Under(at, into, lost, level), NEW q \in DOMAIN config
  PROVE  level[q] \in 0 .. MaxDepth - 1
BY DEF Under, Outlined, AlwaysOutlined

LEMMA CascadeGoesOn ==
  ASSUME NEW at, NEW into, NEW lost, NEW level, Under(at, into, lost, level)
  PROVE  ~AlwaysFails
<1> SUFFICES ASSUME AlwaysFails PROVE FALSE
  OBVIOUS
<1>1. pc = "always" /\ hook = "always" /\ ~fired
  BY DEF AlwaysFails, Under, CallOK, ControlOK
<1>2. current_state \in DOMAIN config /\ depth <= level[current_state]
  BY <1>1 DEF Under, Follows, SignalOK, LevelOK
<1>3. level[current_state] \in 0 .. MaxDepth - 1 /\ depth \in 0 .. MaxDepth
  BY <1>2, LevelBounded DEF Under, CallOK, TypeOK, LocalsOK
<1>4. QED BY <1>2, <1>3, DepthAssumption DEF AlwaysFails, Capped

LEMMA NothingAlwaysFollows ==
  ASSUME NEW at, NEW into, NEW lost, NEW level, Under(at, into, lost, level), NothingAlways,
         UNCHANGED state_name
  PROVE  Follows(at, into, lost, level)'
<1>1. exc = None
  BY DEF NothingAlways, Under, CallOK, ControlOK, Terminated
<1>2. SignalOK'
  BY DEF NothingAlways, Under, Follows, SignalOK, argVars, ctxVars, locals
<1>3. RestOK' /\ LevelOK(level)' /\ BatchOK(at, into, lost)'
  BY <1>1 DEF NothingAlways, Under, Follows, RestOK, LevelOK, BatchOK, Always,
     argVars, ctxVars, locals
<1>4. (session \in Allowed(at, into, lost))'
  BY <1>1 DEF NothingAlways, Under, Follows, Allowed, argVars, ctxVars, locals
<1>5. QED BY <1>2, <1>3, <1>4 DEF Follows

LEMMA AlwaysRoundFollows ==
  ASSUME NEW at, NEW into, NEW lost, NEW level, Under(at, into, lost, level), AlwaysRound,
         UNCHANGED state_name
  PROVE  Follows(at, into, lost, level)'
<1>1. exc = None /\ hook = "always" /\ ~fired
  BY DEF AlwaysRound, Under, CallOK, ControlOK, Terminated
<1>2. /\ hook' = "always" /\ cands' = Always /\ ci' = 1 /\ fired' = FALSE
      /\ pc' = "guard" /\ exc' = exc
      /\ UNCHANGED <<argVars, current_state, session, taken, dispatched, batch, depth>>
  BY AccessorsHold DEF AlwaysRound, BeginRound
<1>3. taken # 0
  BY DEF AlwaysRound, Under, Follows, SignalOK, Always
<1>4. SignalOK'
  BY <1>2, <1>3 DEF Under, Follows, SignalOK, argVars
<1>5. RestOK'
  BY <1>1, <1>2 DEF RestOK, AlwaysRound
<1>6. LevelOK(level)' /\ BatchOK(at, into, lost)'
  BY <1>1, <1>2 DEF Under, Follows, LevelOK, BatchOK, argVars
<1>7. (session \in Allowed(at, into, lost))'
  BY <1>1, <1>2 DEF AlwaysRound, Under, Follows, Allowed
<1>8. QED BY <1>4, <1>5, <1>6, <1>7 DEF Follows

LEMMA ReturnFollows ==
  ASSUME NEW at, NEW into, NEW lost, NEW level,
         Under(at, into, lost, level), Return, UNCHANGED state_name
  PROVE  Follows(at, into, lost, level)'
<1>1. exc = None
  BY DEF Return, Under, CallOK, ControlOK, Terminated
<1>2. SignalOK'
  BY DEF Return, Under, Follows, SignalOK, argVars, ctxVars, locals
<1>3. RestOK' /\ LevelOK(level)' /\ BatchOK(at, into, lost)'
  BY <1>1 DEF Return, Under, Follows, RestOK, LevelOK, BatchOK, argVars, ctxVars, locals
<1>4. (session \in Allowed(at, into, lost))'
  BY <1>1 DEF Return, Under, Follows, Allowed, argVars, ctxVars, locals
<1>5. QED BY <1>2, <1>3, <1>4 DEF Follows

(* The only signal of the call. *)
LEMMA FirstSignal ==
  ASSUME NEW at, NEW into, NEW lost, NEW level, Under(at, into, lost, level),
         pc = "dispatch", taken < Len(events)
  PROVE  taken = 0 /\ depth = 0 /\ current_state = state_name
<1>1. taken \in 0 .. Len(events) /\ Len(events) = 1
  BY DEF Under, CallOK, TypeOK, LocalsOK, Follows, SignalOK
<1>2. taken = 0
  BY <1>1
<1>3. QED BY <1>2 DEF Under, Follows, SignalOK, LevelOK

LEMMA IgnoreSignalFollows ==
  ASSUME NEW at, NEW into, NEW lost, NEW level, Under(at, into, lost, level), IgnoreSignal,
         UNCHANGED state_name
  PROVE  Follows(at, into, lost, level)'
<1>1. exc = None /\ taken = 0 /\ depth = 0
  BY FirstSignal DEF IgnoreSignal, Under, CallOK, ControlOK, Terminated
<1>2. taken' = 1
  BY <1>1 DEF IgnoreSignal, SignalsTaken
<1>3. SignalOK'
  BY <1>2 DEF IgnoreSignal, Under, Follows, SignalOK, argVars, ctxVars
<1>4. RestOK' /\ LevelOK(level)' /\ BatchOK(at, into, lost)'
  BY <1>1, <1>2
  DEF IgnoreSignal, Under, Follows, RestOK, LevelOK, BatchOK, argVars, ctxVars
<1>5. (session \in Allowed(at, into, lost))'
  BY <1>1 DEF IgnoreSignal, Under, Follows, Allowed, argVars, ctxVars
<1>6. QED BY <1>3, <1>4, <1>5 DEF Follows

LEMMA ReceiveSignalFollows ==
  ASSUME NEW at, NEW into, NEW lost, NEW level, Under(at, into, lost, level), ReceiveSignal,
         UNCHANGED state_name
  PROVE  Follows(at, into, lost, level)'
<1>1. exc = None /\ taken = 0 /\ depth = 0 /\ current_state = state_name
  BY FirstSignal DEF ReceiveSignal, Under, CallOK, ControlOK, Terminated
<1>2. /\ hook' = "on" /\ ci' = 1 /\ fired' = FALSE /\ taken' = 1
      /\ dispatched' = current_state /\ pc' = "guard" /\ exc' = exc
      /\ UNCHANGED <<argVars, current_state, session, batch, depth>>
  BY <1>1, AccessorsHold DEF ReceiveSignal, BeginRound, SignalsTaken
<1>3. SignalOK'
  BY <1>1, <1>2 DEF Under, Follows, SignalOK, argVars
<1>4. RestOK' /\ LevelOK(level)' /\ BatchOK(at, into, lost)'
  BY <1>1, <1>2 DEF RestOK, LevelOK, BatchOK
<1>5. (session \in Allowed(at, into, lost))'
  BY <1>1, <1>2 DEF ReceiveSignal, Under, Follows, Allowed
<1>6. QED BY <1>3, <1>4, <1>5 DEF Follows

----------------------------------------------------------------------------
(* Guards *)

(* A candidate that passes: its actions begin. *)
LEMMA AcceptedFollows ==
  ASSUME NEW at, NEW into, NEW lost, NEW level, Under(at, into, lost, level),
         pc = "guard", ci <= Len(cands), MayPass(Candidate, session, Signal.data),
         pc' = "actions", batch' = Candidate.actions, session' = session,
         UNCHANGED <<argVars, current_state, taken, hook, dispatched, cands, ci,
                     fired, depth, exc, state_name>>
  PROVE  Follows(at, into, lost, level)'
<1>1. exc = None /\ hook # "error" /\ session \in at[current_state]
  BY DEF Under, CallOK, ControlOK, ErrorControl, Busy, Terminated, Follows, Allowed
<1>2. Candidate' = Candidate /\ Signal' = Signal
  BY DEF Candidate, Signal, AlwaysSignal, argVars
<1>3. Candidate.actions \in Seq(STRING)
  BY CandidateType DEF Under, CallOK
<1>4. Leads(Candidate.actions, Leaving(at, current_state, Candidate, Signal.data),
            into[Candidate.target], Back(lost), Signal.data)
  BY <1>1, CandidateLeads DEF HopLeads
<1>5. session \in Leaving(at, current_state, Candidate, Signal.data)
  BY <1>1 DEF Leaving
<1>6. Candidate.actions = <<>> => session \in into[Candidate.target]
  BY <1>4, <1>5 DEF Leads
<1>7. SignalOK'
  BY DEF Under, Follows, SignalOK, argVars
<1>8. RestOK' /\ LevelOK(level)'
  BY <1>1 DEF Under, Follows, RestOK, LevelOK, argVars
<1>9. BatchOK(at, into, lost)'
  BY <1>2, <1>3, AllRemains DEF BatchOK
<1>10. (session \in Allowed(at, into, lost))'
  BY <1>1, <1>2, <1>5, <1>6 DEF Allowed, Target
<1>11. QED BY <1>7, <1>8, <1>9, <1>10 DEF Follows

LEMMA PassUnguardedFollows ==
  ASSUME NEW at, NEW into, NEW lost, NEW level, Under(at, into, lost, level), PassUnguarded,
         UNCHANGED state_name
  PROVE  Follows(at, into, lost, level)'
BY AcceptedFollows DEF PassUnguarded, StartBatch, MayPass

(* What a guard may answer to the candidate under trial. *)
LEMMA GuardLooks ==
  ASSUME NEW at, NEW into, NEW lost, NEW level, Under(at, into, lost, level),
         pc = "guard", ci <= Len(cands), Candidate.guard # None
  PROVE  /\ Candidate.guard \in DOMAIN GuardFns
         /\ \A o \in GuardFns[Candidate.guard][<<session, Signal.data>>] :
              /\ o.session = session
              /\ o.raises \in Exceptions \cup {None} /\ o.value \in BOOLEAN \cup {None}
              /\ hook = "always" => o.raises = None /\ o.value # None
<1>1. /\ hook # "error" /\ exc = None /\ session \in Sessions /\ Signal.data \in Data
      /\ session \in at[current_state] /\ TypeOK
  BY SignalType DEF Under, CallOK, ControlOK, ErrorControl, Busy, Terminated, TypeOK,
     ContextOK, Follows, Allowed
<1>2. current_state \in DOMAIN config /\ Candidate \in AllCandidates(config, current_state)
  BY <1>1, CandidateLeads
<1>3. Candidate.guard \in DOMAIN GuardFns
  BY <1>2 DEF Under, Outlined, GuardsLook
<1>4. \A o \in GuardFns[Candidate.guard][<<session, Signal.data>>] : o.session = session
  BY <1>1, <1>2 DEF Under, Outlined, GuardsLook
<1>5. \A o \in GuardFns[Candidate.guard][<<session, Signal.data>>] :
        o.raises \in Exceptions \cup {None} /\ o.value \in BOOLEAN \cup {None}
  <2> SUFFICES ASSUME NEW o \in GuardFns[Candidate.guard][<<session, Signal.data>>]
               PROVE  o.raises \in Exceptions \cup {None} /\ o.value \in BOOLEAN \cup {None}
    OBVIOUS
  <2>1. o \in Outcome
    BY <1>1, <1>3, CallAssumption, OutcomeType
  <2>2. QED BY <2>1 DEF Outcome
<1>6. hook = "always" =>
        \A o \in GuardFns[Candidate.guard][<<session, Signal.data>>] :
          o.raises = None /\ o.value # None
  <2> SUFFICES ASSUME hook = "always"
               PROVE  \A o \in GuardFns[Candidate.guard][<<session, Signal.data>>] :
                        o.raises = None /\ o.value # None
    OBVIOUS
  <2>1. Candidate \in Elements(config[current_state].always)
    BY <1>1, CandidateLeads DEF Always
  <2>2. Signal.data = ""
    BY Zenon DEF Signal, AlwaysSignal
  <2>3. QED BY <1>1, <1>2, <2>1, <2>2 DEF Under, Outlined, AlwaysOutlined
<1>7. QED BY <1>3, <1>4, <1>5, <1>6

(* A candidate that is refused: the next one is tried. *)
LEMMA RefusedFollows ==
  ASSUME NEW at, NEW into, NEW lost, NEW level, Under(at, into, lost, level),
         pc = "guard", ci <= Len(cands),
         hook = "always" => MayRefuse(Candidate, session),
         ci' = ci + 1, session' = session,
         UNCHANGED <<argVars, pc, current_state, taken, hook, dispatched, cands, batch,
                     fired, depth, exc, state_name>>
  PROVE  Follows(at, into, lost, level)'
<1>1. exc = None /\ session \in at[current_state] /\ ci \in 1 .. Len(cands) /\ Len(cands) \in Nat
  BY CandidateType, LenProperties
  DEF Under, CallOK, ControlOK, Terminated, Follows, Allowed, TypeOK, LocalsOK
<1>2. SignalOK'
  BY DEF Under, Follows, SignalOK, argVars
<1>3. LevelOK(level)' /\ BatchOK(at, into, lost)'
  BY DEF Under, Follows, LevelOK, BatchOK, argVars
<1>4. RestOK'
  <2>1. ASSUME hook = "always", NEW j \in 1 .. ci
        PROVE  MayRefuse(cands[j], session)
    <3>1. CASE j = ci
      BY <2>1, <3>1 DEF Candidate
    <3>2. CASE j \in 1 .. ci - 1
      BY <2>1, <3>2 DEF Under, Follows, RestOK
    <3>3. QED BY <1>1, <3>1, <3>2
  <2>2. \A j \in 1 .. (ci + 1) - 1 : j \in 1 .. ci
    BY <1>1
  <2>3. hook = "always" => cands # <<>>
    BY DEF Under, Follows, RestOK
  <2>4. QED BY <1>1, <2>1, <2>2, <2>3 DEF RestOK
<1>5. (session \in Allowed(at, into, lost))'
  BY <1>1 DEF Allowed
<1>6. QED BY <1>2, <1>3, <1>4, <1>5 DEF Follows

LEMMA EvalGuardFollows ==
  ASSUME NEW at, NEW into, NEW lost, NEW level, Under(at, into, lost, level), EvalGuard,
         UNCHANGED state_name
  PROVE  Follows(at, into, lost, level)'
<1>1. PICK o \in GuardFns[Candidate.guard][<<session, Signal.data>>] :
        /\ o.raises = None /\ o.value # None /\ session' = o.session
        /\ IF o.value THEN StartBatch("actions", Candidate.actions) /\ UNCHANGED ci
                      ELSE ci' = ci + 1 /\ UNCHANGED <<pc, batch, n_before>>
  BY DEF EvalGuard
<1>2. /\ pc = "guard" /\ ci <= Len(cands)
      /\ UNCHANGED <<argVars, current_state, taken, hook, dispatched, cands, fired,
                     depth, exc, state_name>>
  BY DEF EvalGuard
<1>3. CASE Candidate.guard # None
  <2>1. session' = session /\ o.value \in BOOLEAN
    BY <1>1, <1>2, <1>3, GuardLooks
  <2>2. CASE o.value = TRUE
    <3>1. MayPass(Candidate, session, Signal.data)
      BY <1>1, <2>2 DEF MayPass, MayAnswer
    <3>2. pc' = "actions" /\ batch' = Candidate.actions /\ ci' = ci
      BY <1>1, <2>2 DEF StartBatch
    <3>3. QED BY <1>2, <2>1, <3>1, <3>2, AcceptedFollows
  <2>3. CASE o.value = FALSE
    <3>1. hook = "always" => MayRefuse(Candidate, session)
      <4> SUFFICES ASSUME hook = "always" PROVE MayRefuse(Candidate, session)
        OBVIOUS
      <4>1. Signal.data = ""
        BY Zenon DEF Signal, AlwaysSignal
      <4>2. QED BY <1>1, <1>3, <2>3, <4>1 DEF MayRefuse, MayAnswer
    <3>2. ci' = ci + 1 /\ UNCHANGED <<pc, batch>>
      BY <1>1, <2>3
    <3>3. QED BY <1>2, <2>1, <3>1, <3>2, RefusedFollows
  <2>4. QED BY <2>1, <2>2, <2>3
<1>4. CASE Candidate.guard = None
  BY <1>4, CallAssumption DEF EvalGuard, IsRegistry
<1>5. QED BY <1>3, <1>4

(* A callback that raises leaves the caller with a state it knows: only a  *)
(* hop of its own signal, or to the error state, may fail.                 *)
LEMMA ThrownFollows ==
  ASSUME NEW at, NEW into, NEW lost, NEW level, Under(at, into, lost, level),
         Busy, pc \notin {"close", "catch"}, hook # "always", session' \in lost[state_name],
         NEW e \in Exceptions, Throw(e),
         UNCHANGED <<argVars, current_state, locals, state_name>>
  PROVE  Follows(at, into, lost, level)'
<1>1. exc' # None /\ pc' \in {"close", "catch"}
  BY WrappedType, CallAssumption DEF Throw
<1>2. SignalOK'
  BY <1>1 DEF Under, Follows, SignalOK, Busy, argVars, locals
<1>3. RestOK' /\ LevelOK(level)' /\ BatchOK(at, into, lost)'
  BY <1>1 DEF Under, Follows, RestOK, LevelOK, BatchOK, locals
<1>4. (session \in Allowed(at, into, lost))'
  BY <1>1 DEF Allowed
<1>5. QED BY <1>2, <1>3, <1>4 DEF Follows

LEMMA GuardFailsFollows ==
  ASSUME NEW at, NEW into, NEW lost, NEW level, Under(at, into, lost, level), GuardFails,
         UNCHANGED state_name
  PROVE  Follows(at, into, lost, level)'
<1>1. /\ pc = "guard" /\ ci <= Len(cands) /\ Candidate.guard # None /\ Busy
      /\ UNCHANGED <<argVars, current_state, locals, state_name>>
  BY DEF GuardFails, Busy
<1>2. Candidate.guard \in DOMAIN GuardFns
  BY <1>1, GuardLooks
<1>3. PICK o \in GuardFns[Candidate.guard][<<session, Signal.data>>] :
        /\ o.raises # None \/ o.value = None
        /\ session' = o.session
        /\ Throw(IF o.raises # None THEN o.raises ELSE "GuardError")
  BY <1>2 DEF GuardFails
<1>4. /\ session' = session /\ hook # "always"
      /\ (IF o.raises # None THEN o.raises ELSE "GuardError") \in Exceptions
  BY <1>1, <1>3, GuardLooks DEF Exceptions
<1>5. hook = "on" /\ session \in at[current_state]
  BY <1>1, <1>4 DEF Under, CallOK, ControlOK, ErrorControl, Busy, Terminated, Follows,
     Allowed, TypeOK, LocalsOK, Hooks
<1>6. session' \in lost[state_name]
  <2>1. /\ current_state = state_name /\ Signal.data \in Data
        /\ Candidate \in OnCandidates(config, current_state)
        /\ current_state \in DOMAIN config
    BY <1>1, <1>5, CandidateLeads, SignalType DEF Under, CallOK
  <2>2. \A p \in GuardFns[Candidate.guard][<<session, Signal.data>>] :
          p.raises # None \/ p.value = None => session \in lost[current_state]
    BY <1>1, <1>5, <2>1 DEF Under, Outlined, OnOutlined
  <2>3. QED BY <1>3, <1>4, <2>1, <2>2
<1>7. QED BY <1>1, <1>3, <1>4, <1>6, ThrownFollows

LEMMA NoneFiredFollows ==
  ASSUME NEW at, NEW into, NEW lost, NEW level, Under(at, into, lost, level), NoneFired,
         UNCHANGED state_name
  PROVE  Follows(at, into, lost, level)'
<1>1. /\ exc = None /\ session \in at[current_state] /\ ~fired
      /\ hook \in {"on", "always"} /\ pc = "guard"
      /\ ci \in 1 .. Len(cands) + 1 /\ ci > Len(cands) /\ Len(cands) \in Nat
      /\ DOMAIN cands = 1 .. Len(cands)
  BY LenProperties DEF NoneFired, Under, CallOK, ControlOK, ErrorControl, Busy, Terminated,
     Follows, Allowed, TypeOK, LocalsOK, Hooks
<1>2. hook = "on"
  <2> SUFFICES ASSUME hook = "always" PROVE FALSE
    BY <1>1
  <2>1. current_state \in DOMAIN config /\ cands = config[current_state].always
    BY <1>1 DEF Under, CallOK, ControlOK, AlwaysControl, Busy, Always
  <2>2. \A j \in DOMAIN cands : MayRefuse(cands[j], session)
    BY <1>1 DEF Under, Follows, RestOK
  <2>3. config[current_state].always # <<>>
    BY <1>1, <2>1 DEF Under, Follows, RestOK
  <2>4. PICK t \in Elements(config[current_state].always) : ~MayRefuse(t, session)
    BY <1>1, <2>1, <2>3 DEF Under, Outlined, AlwaysOutlined
  <2>5. QED BY <2>1, <2>2, <2>4 DEF Elements
<1>3. SignalOK'
  BY <1>1 DEF NoneFired, Under, Follows, SignalOK, argVars, ctxVars, locals
<1>4. RestOK' /\ LevelOK(level)' /\ BatchOK(at, into, lost)'
  BY <1>1, <1>2 DEF NoneFired, Under, Follows, RestOK, LevelOK, BatchOK, locals
<1>5. (session \in Allowed(at, into, lost))'
  BY <1>1 DEF NoneFired, Allowed, ctxVars
<1>6. QED BY <1>3, <1>4, <1>5 DEF Follows

----------------------------------------------------------------------------
(* Actions *)

(* The sessions a batch goes through while it lasts, and ends in. *)
BatchFrom(at, into) ==
  IF pc = "actions" THEN Leaving(at, current_state, Candidate, Signal.data)
                    ELSE into[current_state]

BatchTo(at, into) == IF pc = "actions" THEN into[Target] ELSE at[current_state]

LEMMA BatchLeads ==
  ASSUME NEW at, NEW into, NEW lost, NEW level,
         Under(at, into, lost, level), InBatch, batch # <<>>
  PROVE  /\ pc \in {"actions", "entry"} /\ exc = None
         /\ Head(batch) \in DOMAIN ActionFns
         /\ \A o \in ActionFns[Head(batch)][<<session, Signal.data>>] :
              o.session \in IF o.raises # None THEN Back(lost)
                            ELSE IF Tail(batch) # <<>> THEN BatchFrom(at, into)
                            ELSE BatchTo(at, into)
         /\ pc = "actions" => Remains(Tail(batch), Candidate.actions)
         /\ pc = "entry" => Remains(Tail(batch), config[current_state].entry)
<1>1. pc \in {"actions", "entry"} /\ exc = None /\ batch \in Seq(STRING) /\ TypeOK
  BY DEF InBatch, Under, Follows, BatchOK, CallOK, ControlOK, Terminated, TypeOK, LocalsOK
<1>2. session \in BatchFrom(at, into)
  BY <1>1 DEF Under, Follows, Allowed, BatchFrom
<1> DEFINE names == IF pc = "actions" THEN Candidate.actions ELSE config[current_state].entry
<1>3. /\ names \in Seq(STRING) /\ Remains(batch, names)
      /\ Leads(names, BatchFrom(at, into), BatchTo(at, into), Back(lost), Signal.data)
  <2>1. CASE pc = "actions"
    <3>1. hook # "error" /\ ci <= Len(cands)
      BY <2>1 DEF Under, CallOK, ControlOK, ErrorControl, CandidateControl, Busy
    <3>2. Candidate.actions \in Seq(STRING) /\ Target = Candidate.target
      BY <1>1, <3>1, CandidateType DEF Target
    <3>3. Leads(Candidate.actions, Leaving(at, current_state, Candidate, Signal.data),
                into[Candidate.target], Back(lost), Signal.data)
      BY <2>1, <3>1, CandidateLeads DEF HopLeads
    <3>4. Remains(batch, Candidate.actions)
      BY <2>1 DEF Under, Follows, BatchOK
    <3>5. QED BY <2>1, <3>2, <3>3, <3>4 DEF BatchFrom, BatchTo
  <2>2. CASE pc = "entry"
    <3>1. current_state \in DOMAIN config
      BY DEF Under, Follows, SignalOK
    <3>2. config[current_state].entry \in Seq(STRING)
      BY <1>1, <3>1, GraphType, StateConfigType
    <3>3. QED BY <2>2, <3>2 DEF Under, Follows, BatchOK, BatchFrom, BatchTo
  <2>3. QED BY <1>1, <2>1, <2>2
<1>4. names = IF pc = "actions" THEN Candidate.actions ELSE config[current_state].entry
  OBVIOUS
<1> HIDE DEF names
<1>5. /\ Head(batch) \in DOMAIN ActionFns
      /\ \A o \in ActionFns[Head(batch)][<<session, Signal.data>>] :
           o.session \in IF o.raises # None THEN Back(lost)
                         ELSE IF Tail(batch) # <<>> THEN BatchFrom(at, into)
                         ELSE BatchTo(at, into)
  BY <1>1, <1>2, <1>3, ActionLeads
<1>6. Remains(Tail(batch), names)
  BY <1>1, <1>3, NextOfBatch
<1>7. QED BY <1>1, <1>4, <1>5, <1>6

LEMMA RunActionFollows ==
  ASSUME NEW at, NEW into, NEW lost, NEW level, Under(at, into, lost, level), RunAction,
         UNCHANGED state_name
  PROVE  Follows(at, into, lost, level)'
<1>1. /\ InBatch /\ batch # <<>> /\ batch' = Tail(batch)
      /\ UNCHANGED <<argVars, current_state, pc, taken, hook, dispatched, cands, ci,
                     fired, depth, exc>>
  BY DEF RunAction
<1>2. /\ pc \in {"actions", "entry"} /\ exc = None
      /\ session' \in IF Tail(batch) # <<>> THEN BatchFrom(at, into) ELSE BatchTo(at, into)
      /\ pc = "actions" => Remains(Tail(batch), Candidate.actions)
      /\ pc = "entry" => Remains(Tail(batch), config[current_state].entry)
  BY <1>1, BatchLeads DEF RunAction
<1>3. Candidate' = Candidate /\ Signal' = Signal /\ Target' = Target /\ Back(lost)' = Back(lost)
  BY <1>1 DEF Candidate, Signal, AlwaysSignal, Target, RecoveryState, Back, argVars
<1>4. SignalOK'
  BY <1>1 DEF Under, Follows, SignalOK, argVars
<1>5. RestOK' /\ LevelOK(level)'
  BY <1>1, <1>2 DEF Under, Follows, RestOK, LevelOK, argVars
<1>6. BatchOK(at, into, lost)'
  BY <1>1, <1>2, <1>3 DEF Under, Follows, BatchOK, argVars
<1>7. (session \in Allowed(at, into, lost))'
  BY <1>1, <1>2, <1>3 DEF Allowed, BatchFrom, BatchTo
<1>8. QED BY <1>4, <1>5, <1>6, <1>7 DEF Follows

LEMMA ActionFailsFollows ==
  ASSUME NEW at, NEW into, NEW lost, NEW level, Under(at, into, lost, level), ActionFails,
         UNCHANGED state_name
  PROVE  Follows(at, into, lost, level)'
<1>1. /\ InBatch /\ batch # <<>>
      /\ UNCHANGED <<argVars, current_state, locals, state_name>>
  BY DEF ActionFails
<1>2. Head(batch) \in DOMAIN ActionFns
  BY <1>1, BatchLeads
<1>3. PICK o \in ActionFns[Head(batch)][<<session, Signal.data>>] :
        o.raises # None /\ session' = o.session /\ Throw(o.raises)
  BY <1>2 DEF ActionFails
<1>4. session' \in Back(lost)
  BY <1>1, <1>3, BatchLeads
<1>5. hook # "always" /\ session' \in lost[state_name]
  BY <1>4 DEF Back
<1>6. o.raises \in Exceptions
  <2>1. Busy /\ session \in Sessions
    BY <1>1 DEF InBatch, Busy, Under, CallOK, TypeOK, ContextOK
  <2>2. Signal.data \in Data
    BY <2>1, SignalType DEF Under, CallOK
  <2>3. o \in Outcome
    BY <1>2, <2>1, <2>2, CallAssumption, OutcomeType
  <2>4. QED BY <1>3, <2>3 DEF Outcome
<1>7. Busy /\ pc \notin {"close", "catch"}
  BY <1>1 DEF InBatch, Busy
<1>8. QED BY <1>1, <1>3, <1>5, <1>6, <1>7, ThrownFollows

LEMMA TransitionActionsDoneFollows ==
  ASSUME NEW at, NEW into, NEW lost, NEW level,
         Under(at, into, lost, level), TransitionActionsDone,
         UNCHANGED state_name
  PROVE  Follows(at, into, lost, level)'
<1>1. /\ pc = "actions" /\ batch = <<>> /\ pc' = "exit" /\ batch' = ExitActions
      /\ UNCHANGED <<argVars, current_state, session, taken, hook, dispatched, cands, ci,
                     fired, depth, exc>>
  BY DEF TransitionActionsDone, StartBatch
<1>2. exc = None /\ ExitActions = <<>>
  BY <1>1 DEF ExitActions, Under, CallOK, ControlOK, Terminated, Outlined, GuardsLook,
     Follows, SignalOK
<1>3. Target' = Target
  BY <1>1 DEF Candidate, Target, RecoveryState, argVars
<1>4. SignalOK'
  BY <1>1 DEF Under, Follows, SignalOK, argVars
<1>5. RestOK' /\ LevelOK(level)' /\ BatchOK(at, into, lost)'
  BY <1>1, <1>2 DEF Under, Follows, RestOK, LevelOK, BatchOK, argVars
<1>6. (session \in Allowed(at, into, lost))'
  BY <1>1, <1>2, <1>3 DEF Under, Follows, Allowed
<1>7. QED BY <1>4, <1>5, <1>6 DEF Follows

LEMMA ChangeStateFollows ==
  ASSUME NEW at, NEW into, NEW lost, NEW level, Under(at, into, lost, level), ChangeState,
         UNCHANGED state_name
  PROVE  Follows(at, into, lost, level)'
<1>1. pc = "exit" /\ batch = <<>>
  BY DEF ChangeState
<1>2. /\ current_state \in DOMAIN config /\ Target \in DOMAIN config
      /\ Leads(config[Target].entry, into[Target], at[Target], Back(lost), Signal.data)
      /\ hook = "always" => level[current_state] < level[Target]
  BY <1>1, TargetLeads
<1>3. /\ pc' = "entry" /\ batch' = config[Target].entry
      /\ current_state' = Target /\ fired' = TRUE
      /\ UNCHANGED <<argVars, session, taken, hook, dispatched, cands, ci, depth, exc>>
  BY <1>2 DEF ChangeState, StartBatch
<1>4. exc = None /\ ~fired /\ session \in into[Target]
  BY <1>1 DEF Under, CallOK, ControlOK, Terminated, Follows, Allowed
<1>5. Signal' = Signal /\ Back(lost)' = Back(lost)
  BY <1>3 DEF Signal, AlwaysSignal, Back, argVars
<1>6. config[Target].entry \in Seq(STRING)
  BY <1>2, GraphType, StateConfigType DEF Under, CallOK
<1>7. SignalOK'
  BY <1>1, <1>2, <1>3 DEF Under, Follows, SignalOK, argVars
<1>8. RestOK'
  BY <1>3, <1>4 DEF RestOK
<1>9. LevelOK(level)'
  <2>1. CASE hook = "always"
    <3>1. depth <= level[current_state] /\ (taken = 0 => depth = 0)
      BY <1>4, <2>1 DEF Under, Follows, LevelOK
    <3>2. /\ level[current_state] \in Int /\ level[Target] \in Int
          /\ level[current_state] < level[Target] /\ depth \in Int
      BY <1>2, <2>1, LevelBounded DEF Under, CallOK, TypeOK, LocalsOK
    <3>3. depth + 1 <= level[Target]
      BY <3>1, <3>2
    <3>4. QED BY <1>3, <2>1, <3>1, <3>3 DEF LevelOK
  <2>2. CASE hook # "always"
    BY <1>3, <2>2 DEF Under, Follows, LevelOK
  <2>3. QED BY <2>1, <2>2
<1>10. BatchOK(at, into, lost)'
  BY <1>2, <1>3, <1>5, <1>6, AllRemains DEF BatchOK, argVars
<1>11. config[Target].entry = <<>> => session \in at[Target]
  BY <1>2, <1>4 DEF Leads
<1>12. (session \in Allowed(at, into, lost))'
  BY <1>3, <1>4, <1>11 DEF Allowed
<1>13. QED BY <1>7, <1>8, <1>9, <1>10, <1>12 DEF Follows

LEMMA EntryActionsDoneFollows ==
  ASSUME NEW at, NEW into, NEW lost, NEW level,
         Under(at, into, lost, level), EntryActionsDone,
         UNCHANGED state_name
  PROVE  Follows(at, into, lost, level)'
<1>1. exc = None /\ fired
  BY DEF EntryActionsDone, Under, CallOK, ControlOK, Terminated
<1>2. SignalOK'
  BY DEF EntryActionsDone, Under, Follows, SignalOK, argVars, locals
<1>3. RestOK' /\ LevelOK(level)' /\ BatchOK(at, into, lost)'
  BY <1>1 DEF EntryActionsDone, Under, Follows, RestOK, LevelOK, BatchOK, argVars, locals
<1>4. (session \in Allowed(at, into, lost))'
  BY <1>1 DEF EntryActionsDone, Under, Follows, Allowed, locals
<1>5. QED BY <1>2, <1>3, <1>4 DEF Follows

----------------------------------------------------------------------------
(* The end of a round *)

LEMMA CloseStepFollows ==
  ASSUME NEW at, NEW into, NEW lost, NEW level, Under(at, into, lost, level), CloseStep,
         UNCHANGED state_name
  PROVE  Follows(at, into, lost, level)'
<1>1. /\ pc = "close"
      /\ UNCHANGED <<argVars, current_state, session, taken, dispatched, cands, ci, batch,
                     exc, state_name>>
  BY DEF CloseStep
<1>2. CASE exc # None
  <2>1. pc' = "catch" /\ UNCHANGED <<hook, depth, fired>>
    BY <1>2 DEF CloseStep
  <2>2. SignalOK'
    BY <1>1, <2>1 DEF Under, Follows, SignalOK, argVars
  <2>3. RestOK' /\ LevelOK(level)' /\ BatchOK(at, into, lost)'
    BY <1>1, <1>2, <2>1 DEF Under, Follows, RestOK, LevelOK, BatchOK
  <2>4. (session \in Allowed(at, into, lost))'
    BY <1>1, <1>2, <2>1 DEF Under, Follows, Allowed
  <2>5. QED BY <2>2, <2>3, <2>4 DEF Follows
<1>3. CASE exc = None /\ fired
  <2>1. pc' = "always" /\ hook' = "always" /\ depth' = NextDepth /\ fired' = FALSE
    BY <1>3 DEF CloseStep, Cascades
  <2>2. SignalOK'
    BY <1>1, <2>1 DEF Under, Follows, SignalOK, argVars
  <2>3. LevelOK(level)'
    <3>1. level[current_state] \in 0 .. MaxDepth - 1 /\ taken # 0
      BY <1>1, LevelBounded DEF Under, Follows, SignalOK
    <3>2. CASE hook = "always"
      BY <1>1, <1>3, <2>1, <3>1, <3>2 DEF NextDepth, Under, Follows, LevelOK
    <3>3. CASE hook # "always"
      BY <1>1, <1>3, <2>1, <3>1, <3>3 DEF NextDepth, LevelOK
    <3>4. QED BY <3>2, <3>3
  <2>4. RestOK' /\ BatchOK(at, into, lost)'
    BY <1>1, <1>3, <2>1 DEF RestOK, BatchOK
  <2>5. (session \in Allowed(at, into, lost))'
    BY <1>1, <1>3, <2>1 DEF Under, Follows, Allowed
  <2>6. QED BY <2>2, <2>3, <2>4, <2>5 DEF Follows
<1>4. CASE exc = None /\ ~fired
  <2>1. pc' = "dispatch" /\ UNCHANGED <<hook, depth, fired>>
    BY <1>4 DEF CloseStep, Cascades
  <2>2. hook = "on" /\ current_state = state_name /\ config[state_name].always = <<>>
    BY <1>1, <1>4 DEF Under, Follows, RestOK, SignalOK, CallOK, ControlOK, OnControl, Busy
  <2>3. SignalOK'
    BY <1>1, <2>1 DEF Under, Follows, SignalOK, argVars
  <2>4. RestOK' /\ LevelOK(level)' /\ BatchOK(at, into, lost)'
    BY <1>1, <1>4, <2>1, <2>2 DEF Under, Follows, RestOK, LevelOK, BatchOK, argVars
  <2>5. (session \in Allowed(at, into, lost))'
    BY <1>1, <1>4, <2>1 DEF Under, Follows, Allowed
  <2>6. QED BY <2>3, <2>4, <2>5 DEF Follows
<1>5. QED BY <1>2, <1>3, <1>4 DEF Under, CallOK, TypeOK, LocalsOK

LEMMA RouteToErrorStateFollows ==
  ASSUME NEW at, NEW into, NEW lost, NEW level,
         Under(at, into, lost, level), RouteToErrorState,
         UNCHANGED state_name
  PROVE  Follows(at, into, lost, level)'
<1>1. /\ pc = "catch" /\ hook = "on" /\ exc = "TransitionError" /\ RecoveryState # None
      /\ Busy
  BY DEF RouteToErrorState, Recovers, Caught, Busy
<1>2. /\ hook' = "error" /\ fired' = FALSE /\ pc' = "exit" /\ batch' = ExitActions
      /\ exc' = None
      /\ UNCHANGED <<argVars, current_state, session, taken, dispatched, cands, ci, depth>>
  BY AccessorsHold DEF RouteToErrorState, StartBatch
<1>3. ExitActions = <<>>
  BY DEF ExitActions, Under, Outlined, GuardsLook, Follows, SignalOK
<1>4. session \in lost[state_name] /\ lost[state_name] \subseteq into[RecoveryState]
  BY <1>1, CallAssumption, RecoveryLeads DEF Under, Follows, Allowed, RestOK
<1>5. Target' = RecoveryState
  BY <1>2 DEF Target, RecoveryState, argVars
<1>6. SignalOK'
  BY <1>1, <1>2 DEF Under, Follows, SignalOK, argVars
<1>7. RestOK' /\ LevelOK(level)' /\ BatchOK(at, into, lost)'
  BY <1>1, <1>2, <1>3 DEF Under, Follows, RestOK, LevelOK, BatchOK
<1>8. (session \in Allowed(at, into, lost))'
  BY <1>2, <1>3, <1>4, <1>5 DEF Allowed
<1>9. QED BY <1>6, <1>7, <1>8 DEF Follows

LEMMA PropagateFollows ==
  ASSUME NEW at, NEW into, NEW lost, NEW level, Under(at, into, lost, level), Propagate,
         UNCHANGED state_name
  PROVE  Follows(at, into, lost, level)'
<1>1. exc # None
  BY DEF Propagate, Under, Follows, RestOK
<1>2. SignalOK'
  BY DEF Propagate, Under, Follows, SignalOK, argVars, ctxVars, locals
<1>3. RestOK' /\ LevelOK(level)' /\ BatchOK(at, into, lost)'
  BY <1>1 DEF Propagate, Under, Follows, RestOK, LevelOK, BatchOK, argVars, ctxVars, locals
<1>4. (session \in Allowed(at, into, lost))'
  BY <1>1 DEF Propagate, Under, Follows, Allowed, argVars, ctxVars, locals
<1>5. QED BY <1>2, <1>3, <1>4 DEF Follows

LEMMA StutterFollows ==
  ASSUME NEW at, NEW into, NEW lost, NEW level,
         Under(at, into, lost, level), UNCHANGED <<vars, state_name>>
  PROVE  Follows(at, into, lost, level)'
<1>1. /\ Candidate' = Candidate /\ Signal' = Signal /\ Target' = Target
      /\ Back(lost)' = Back(lost)
  BY DEF Candidate, Signal, AlwaysSignal, Target, RecoveryState, Back, vars, argVars,
     ctxVars, locals
<1>2. SignalOK' /\ RestOK' /\ LevelOK(level)'
  BY DEF Under, Follows, SignalOK, RestOK, LevelOK, vars, argVars, ctxVars, locals
<1>3. BatchOK(at, into, lost)' /\ (session \in Allowed(at, into, lost))'
  BY <1>1 DEF Under, Follows, BatchOK, Allowed, vars, argVars, ctxVars, locals
<1>4. QED BY <1>2, <1>3 DEF Follows

(* Every step of a call stays within the outline. *)
LEMMA StepFollows ==
  ASSUME NEW at, NEW into, NEW lost, NEW level,
         Under(at, into, lost, level), Next, UNCHANGED state_name
  PROVE  Follows(at, into, lost, level)'
<1>1. CASE NothingAlways \/ AlwaysRound \/ Return \/ IgnoreSignal \/ ReceiveSignal
  BY <1>1, NothingAlwaysFollows, AlwaysRoundFollows, ReturnFollows, IgnoreSignalFollows,
     ReceiveSignalFollows
<1>2. CASE PassUnguarded \/ EvalGuard \/ GuardFails \/ NoneFired
  BY <1>2, PassUnguardedFollows, EvalGuardFollows, GuardFailsFollows, NoneFiredFollows
<1>3. CASE RunAction \/ ActionFails \/ TransitionActionsDone \/ ChangeState \/ EntryActionsDone
  BY <1>3, RunActionFollows, ActionFailsFollows, TransitionActionsDoneFollows,
     ChangeStateFollows, EntryActionsDoneFollows
<1>4. CASE CloseStep \/ RouteToErrorState \/ Propagate
  BY <1>4, CloseStepFollows, RouteToErrorStateFollows, PropagateFollows
<1>5. CASE AlwaysFails \/ CloseFails
  BY <1>5, CascadeGoesOn, AccessorsHold DEF CloseFails
<1>6. CASE Done
  BY <1>6, StutterFollows DEF Done
<1>7. QED BY <1>1, <1>2, <1>3, <1>4, <1>5, <1>6 DEF Next

(* So does the next call. *)
LEMMA NextCallFollows ==
  ASSUME NEW at, NEW into, NEW lost, NEW level,
         Under(at, into, lost, level), InTalk, NextCall
  PROVE  Follows(at, into, lost, level)'
<1>1. /\ state_name' = Kept /\ current_state' = Kept /\ dispatched' = Kept
      /\ pc' = "always" /\ hook' = "always" /\ taken' = 0 /\ depth' = 0
      /\ cands' = <<>> /\ ci' = 1 /\ batch' = <<>> /\ fired' = FALSE /\ exc' = None
      /\ UNCHANGED <<config, session>>
  BY DEF NextCall
<1>2. PICK turn : events' = <<turn>>
  BY DEF NextCall
<1>3. Len(events') = 1
  BY <1>2
<1>4. CASE pc = "returned"
  <2>1. Kept = current_state
    BY <1>4 DEF Kept
  <2>2. Kept \in DOMAIN config /\ config[Kept].always = <<>> /\ session \in at[Kept]
    BY <1>4, <2>1 DEF Under, Follows, SignalOK, RestOK, Allowed
  <2>3. QED BY <1>1, <1>3, <2>2, LevelBounded
        DEF Follows, SignalOK, RestOK, LevelOK, BatchOK, Allowed
<1>5. CASE pc = "raised"
  <2>1. Kept = state_name
    BY <1>5 DEF Kept
  <2>2. Kept \in DOMAIN config /\ config[Kept].always = <<>> /\ session \in at[Kept]
    BY <1>5, <2>1 DEF Under, Follows, SignalOK, RestOK, Allowed, Outlined, ErrorOutlined
  <2>3. QED BY <1>1, <1>3, <2>2, LevelBounded
        DEF Follows, SignalOK, RestOK, LevelOK, BatchOK, Allowed
<1>6. QED BY <1>4, <1>5 DEF NextCall, Terminated

LEMMA TalkFollows ==
  ASSUME NEW at, NEW into, NEW lost, NEW level,
         AccessorsRead, Outlined(config, at, into, lost, level),
         ConversationInit
  PROVE  Follows(at, into, lost, level)
<1>1. Fresh /\ taken = 0 /\ pc = "always" /\ hook = "always" /\ depth = 0 /\ ~fired /\ exc = None
      /\ dispatched = current_state /\ state_name = current_state
  BY InitFresh DEF ConversationInit, Init
<1>2. PICK t \in Talks : /\ config = t.config /\ current_state = t.start /\ session = t.session
                         /\ \E turn \in t.turns : events = <<turn>>
  BY DEF ConversationInit
<1>3. Len(events) = 1
  BY <1>2
<1>4. current_state \in DOMAIN config /\ config[current_state].always = <<>>
      /\ session \in at[current_state]
  BY <1>2 DEF Outlined, Begins
<1>5. level[current_state] \in 0 .. MaxDepth - 1
  BY <1>4 DEF Outlined, AlwaysOutlined
<1>6. QED BY <1>1, <1>3, <1>4, <1>5 DEF Follows, SignalOK, RestOK, LevelOK, BatchOK, Allowed

(* A conversation begins in the outline of its graph, and stays there. *)
LEMMA OutlineKept ==
  ASSUME NEW c, NEW at, NEW into, NEW lost, NEW level,
         AccessorsRead, Outlined(c, at, into, lost, level)
  PROVE  /\ ConversationInit => (config = c => Follows(at, into, lost, level))
         /\ CallOK /\ InTalk /\ [ConversationNext]_<<vars, state_name>>
              /\ (config = c => Follows(at, into, lost, level))
            => (config = c => Follows(at, into, lost, level))'
<1> DEFINE Inv == config = c => Follows(at, into, lost, level)
<1>1. ConversationInit => Inv
  BY TalkFollows
<1>2. CallOK /\ InTalk /\ Inv /\ [ConversationNext]_<<vars, state_name>> => Inv'
  <2> SUFFICES ASSUME CallOK, InTalk, Inv, [ConversationNext]_<<vars, state_name>>, config' = c
               PROVE  Follows(at, into, lost, level)'
    OBVIOUS
  <2>1. config = c
    BY StepKeepsGraph DEF ConversationNext, Step, NextCall, vars, argVars
  <2>2. Under(at, into, lost, level)
    BY <2>1 DEF Under
  <2>3. CASE Step
    BY <2>2, <2>3, StepFollows DEF Step
  <2>4. CASE NextCall
    BY <2>2, <2>4, NextCallFollows
  <2>5. CASE UNCHANGED <<vars, state_name>>
    BY <2>2, <2>5, StutterFollows
  <2>6. QED BY <2>3, <2>4, <2>5 DEF ConversationNext
<1>3. QED BY <1>1, <1>2, PTL

(***************************************************************************)
(* The rule.  If no accessor raises and the outline of a graph holds of    *)
(* every hop on its own, then every conversation with a machine built from *)
(* that graph follows it: after any number of calls, whichever of them     *)
(* raised or were cancelled, and however the guards answered.              *)
(***************************************************************************)
THEOREM OutlineFollowed ==
  ASSUME NEW c, NEW at, NEW into, NEW lost, NEW level,
         AccessorsRead, Outlined(c, at, into, lost, level)
  PROVE  ConversationSpec => [](config = c => Follows(at, into, lost, level))
<1>1. /\ ConversationInit => (config = c => Follows(at, into, lost, level))
      /\ CallOK /\ InTalk /\ [ConversationNext]_<<vars, state_name>>
           /\ (config = c => Follows(at, into, lost, level))
         => (config = c => Follows(at, into, lost, level))'
  BY OutlineKept
<1>2. QED BY <1>1, CallsInARow, PTL DEF ConversationSpec

(* Wherever a call is, its session is one of the outline's. *)
LEMMA SessionOutlined ==
  ASSUME NEW at, NEW into, NEW lost, NEW level, Under(at, into, lost, level)
  PROVE  \E q \in DOMAIN config : session \in at[q] \cup into[q]
<1>1. state_name \in DOMAIN config /\ current_state \in DOMAIN config
  BY DEF Under, Follows, SignalOK
<1>2. lost[state_name] \subseteq at[state_name]
  BY <1>1 DEF Under, Outlined, ErrorOutlined
<1>3. CASE exc = None /\ pc = "actions" /\ batch = <<>>
  <2>1. hook # "error" /\ ci <= Len(cands)
    BY <1>3 DEF Under, CallOK, ControlOK, ErrorControl, CandidateControl, Busy
  <2>2. Target \in DOMAIN config
    BY <1>3, <2>1, CandidateLeads DEF Target
  <2>3. QED BY <1>3, <2>2 DEF Under, Follows, Allowed
<1>4. CASE exc = None /\ pc = "exit"
  <2>1. Target \in DOMAIN config
    BY <1>4, TargetLeads
  <2>2. QED BY <1>4, <2>1 DEF Under, Follows, Allowed
<1>5. CASE exc # None \/ pc \notin {"actions", "exit"} \/ (pc = "actions" /\ batch # <<>>)
  BY <1>1, <1>2, <1>5 DEF Under, Follows, Allowed, Leaving
<1>6. QED BY <1>3, <1>4, <1>5

-----------------------------------------------------------------------------
(***************************************************************************)
(* Outlines of short hops.                                                 *)
(***************************************************************************)

LEMMA FewElements ==
  /\ Elements(<<>>) = {}
  /\ \A a : Elements(<<a>>) = {a}
  /\ \A a, b : Elements(<<a, b>>) = {a, b}
<1>1. Elements(<<>>) = {}
  BY DEF Elements
<1>2. ASSUME NEW a PROVE Elements(<<a>>) = {a}
  <2>1. DOMAIN <<a>> = {1} /\ <<a>>[1] = a
    OBVIOUS
  <2>2. QED BY <2>1 DEF Elements
<1>3. ASSUME NEW a, NEW b PROVE Elements(<<a, b>>) = {a, b}
  <2>1. DOMAIN <<a, b>> = {1, 2} /\ <<a, b>>[1] = a /\ <<a, b>>[2] = b
    OBVIOUS
  <2>2. QED BY <2>1 DEF Elements
<1>4. QED BY <1>1, <1>2, <1>3

LEMMA NoActionLeads ==
  ASSUME NEW from, NEW to, NEW back, NEW d, from \subseteq to
  PROVE  Leads(<<>>, from, to, back, d)
BY DEF Leads

(* A single action leads where its outcomes are. *)
LEMMA OneActionLeads ==
  ASSUME NEW name \in DOMAIN ActionFns, NEW from, NEW to, NEW back, NEW d,
         \A s \in from : \A o \in ActionFns[name][<<s, d>>] :
           o.session \in IF o.raises # None THEN back ELSE to
  PROVE  Leads(<<name>>, from, to, back, d)
<1>1. DOMAIN <<name>> = {1} /\ <<name>>[1] = name /\ Len(<<name>>) = 1 /\ <<name>> # <<>>
  OBVIOUS
<1>2. QED BY <1>1 DEF Leads

(* An action that only sends a message leads nowhere else. *)
LEMMA MessageLeads ==
  ASSUME NEW name \in DOMAIN ActionFns, ActionFns[name] = Message,
         NEW from, NEW to, NEW back, NEW d \in Data, from \subseteq to, from \subseteq Sessions
  PROVE  Leads(<<name>>, from, to, back, d)
<1>1. \A s \in from : \A o \in ActionFns[name][<<s, d>>] :
        o.session \in IF o.raises # None THEN back ELSE to
  BY DEF Message, Ok
<1>2. QED BY <1>1, OneActionLeads

(* What leads somewhere from many sessions, leads there from fewer of them. *)
LEMMA MoreLeads ==
  ASSUME NEW names, NEW from, NEW less, NEW to, NEW back, NEW more, NEW d,
         Leads(names, from, to, back, d), less \subseteq from, back \subseteq more,
         names = <<>> \/ \E name : names = <<name>>
  PROVE  Leads(names, less, to, more, d)
<1>1. CASE names = <<>>
  BY <1>1 DEF Leads
<1>2. CASE \E name : names = <<name>>
  <2>1. PICK name : names = <<name>>
    BY <1>2
  <2>2. DOMAIN names = {1} /\ names[1] = name /\ Len(names) = 1 /\ names # <<>>
    BY <2>1
  <2>3. QED BY <2>2 DEF Leads
<1>3. QED BY <1>1, <1>2

-----------------------------------------------------------------------------
(***************************************************************************)
(* examples/bread.py                                                       *)
(***************************************************************************)

Unplated == {s \in BakingSessions : s.plated = 0}

Cooled == {s \in Unplated : s.oven_temp_c = 25}

Plated == {s \in BakingSessions : s.plated = 1}

BreadAt ==
  [idle |-> Unplated, mixing |-> Unplated, baking |-> Unplated, cooling |-> Cooled,
   done |-> Plated, failed |-> Unplated]

BreadInto ==
  [idle |-> Unplated, mixing |-> Unplated, baking |-> Unplated, cooling |-> Cooled,
   done |-> Unplated, failed |-> Unplated]

(* Nothing that a baker does can fail. *)
BreadLost == [q \in DOMAIN BreadConfig |-> {}]

BreadLevel ==
  [idle |-> 0, mixing |-> 0, baking |-> 0, cooling |-> 0, done |-> 1, failed |-> 0]

LEMMA BreadActions ==
  ASSUME NEW s \in BakingSessions, NEW d \in Data
  PROVE  /\ \A name \in {"check_ingredients", "preheat_oven", "start_cooling", "plate_cake"} :
              name \in DOMAIN ActionFns
         /\ ActionFns["check_ingredients"][<<s, d>>] = {Ok(None, check_ingredients(s, d))}
         /\ ActionFns["preheat_oven"][<<s, d>>] = {Ok(None, preheat_oven(s, d))}
         /\ ActionFns["start_cooling"][<<s, d>>] = {Ok(None, start_cooling(s, d))}
         /\ ActionFns["plate_cake"][<<s, d>>] = {Ok(None, plate_cake(s, d))}
<1>1. <<s, d>> \in Sessions \X Data
  BY BreadAssumption
<1>2. DOMAIN BreadActionFns = {"check_ingredients", "preheat_oven", "start_cooling", "plate_cake"}
  BY DEF BreadActionFns
<1>3. \A name \in DOMAIN BreadActionFns :
        name \in DOMAIN ActionFns /\ ActionFns[name] = BreadActionFns[name]
  BY BreadAssumption DEF Registers
<1>4. BreadActionFns["check_ingredients"][<<s, d>>] = {Ok(None, check_ingredients(s, d))}
  BY <1>1 DEF BreadActionFns, Action, Answers
<1>5. BreadActionFns["preheat_oven"][<<s, d>>] = {Ok(None, preheat_oven(s, d))}
  BY <1>1 DEF BreadActionFns, Action, Answers
<1>6. BreadActionFns["start_cooling"][<<s, d>>] = {Ok(None, start_cooling(s, d))}
  BY <1>1 DEF BreadActionFns, Action, Answers
<1>7. BreadActionFns["plate_cake"][<<s, d>>] = {Ok(None, plate_cake(s, d))}
  BY <1>1 DEF BreadActionFns, Action, Answers
<1>8. QED BY <1>2, <1>3, <1>4, <1>5, <1>6, <1>7

LEMMA BreadGuards ==
  ASSUME NEW d \in Data
  PROVE  \A name \in {"ingredients_ready", "oven_is_cool"} :
           /\ name \in DOMAIN GuardFns
           /\ \A s \in Sessions : \A o \in GuardFns[name][<<s, d>>] : o.session = s
<1>2. DOMAIN BreadGuardFns = {"ingredients_ready", "oven_is_cool"}
  BY DEF BreadGuardFns
<1>3. \A name \in DOMAIN BreadGuardFns :
        name \in DOMAIN GuardFns /\ GuardFns[name] = BreadGuardFns[name]
  BY BreadAssumption DEF Registers
<1>4. ASSUME NEW s \in Sessions
      PROVE  \A o \in BreadGuardFns["ingredients_ready"][<<s, d>>] : o.session = s
  BY DEF BreadGuardFns, Guard, Answers, Ok
<1>5. ASSUME NEW s \in Sessions
      PROVE  \A o \in BreadGuardFns["oven_is_cool"][<<s, d>>] : o.session = s
  BY DEF BreadGuardFns, Guard, Answers, Ok
<1>8. QED BY <1>2, <1>3, <1>4, <1>5

LEMMA BreadCandidates ==
  /\ DOMAIN BreadConfig = {"idle", "mixing", "baking", "cooling", "done", "failed"}
  /\ OnCandidates(BreadConfig, "idle") = {On("mixing", None, <<"check_ingredients">>)}
  /\ OnCandidates(BreadConfig, "mixing") =
       {On("baking", "ingredients_ready", <<"preheat_oven">>)}
  /\ OnCandidates(BreadConfig, "baking") = {On("cooling", None, <<"start_cooling">>)}
  /\ \A q \in {"cooling", "done", "failed"} : OnCandidates(BreadConfig, q) = {}
  /\ Elements(BreadConfig["cooling"].always) = {On("done", "oven_is_cool", <<>>)}
  /\ \A q \in {"idle", "mixing", "baking", "done", "failed"} :
       BreadConfig[q].always = <<>> /\ Elements(BreadConfig[q].always) = {}
BY FewElements DEF OnCandidates, BreadConfig, State, Leaf

(* None of the entry actions fails. *)
LEMMA BreadEntries ==
  ASSUME NEW q \in DOMAIN BreadConfig, NEW d \in Data, NEW back
  PROVE  Leads(BreadConfig[q].entry, BreadInto[q], BreadAt[q], back, d)
<1>1. CASE q = "done"
  <2>1. \A s \in Unplated : \A o \in ActionFns["plate_cake"][<<s, d>>] :
          o.session \in IF o.raises # None THEN back ELSE Plated
    <3> SUFFICES ASSUME NEW s \in Unplated
                 PROVE  \A o \in ActionFns["plate_cake"][<<s, d>>] :
                          o.session \in IF o.raises # None THEN back ELSE Plated
      OBVIOUS
    <3>1. s \in BakingSessions /\ s.plated = 0
      BY DEF Unplated
    <3>2. plate_cake(s, d) \in Plated
      BY <3>1 DEF plate_cake, Plated, BakingSessions
    <3>3. QED BY <3>1, <3>2, BreadActions DEF Ok
  <2>2. "plate_cake" \in DOMAIN ActionFns
    BY BreadAssumption DEF Registers, BreadActionFns
  <2>3. Leads(<<"plate_cake">>, Unplated, Plated, back, d)
    BY <2>1, <2>2, OneActionLeads
  <2>4. BreadConfig[q].entry = <<"plate_cake">> /\ BreadInto[q] = Unplated /\ BreadAt[q] = Plated
    BY <1>1 DEF BreadConfig, State, BreadInto, BreadAt
  <2>5. QED BY <2>3, <2>4
<1>2. CASE q # "done"
  <2>1. BreadConfig[q].entry = <<>> /\ BreadInto[q] = BreadAt[q]
    BY <1>2 DEF BreadConfig, State, Leaf, BreadInto, BreadAt
  <2>2. QED BY <2>1, NoActionLeads
<1>3. QED BY <1>1, <1>2

LEMMA BreadHops ==
  ASSUME NEW d \in Data, NEW back
  PROVE  /\ Leads(<<"check_ingredients">>, Unplated, Unplated, back, d)
         /\ Leads(<<"preheat_oven">>, Unplated, Unplated, back, d)
         /\ Leads(<<"start_cooling">>, Unplated, Cooled, back, d)
<1>1. \A name \in {"check_ingredients", "preheat_oven", "start_cooling"} : name \in DOMAIN ActionFns
  BY BreadAssumption DEF Registers, BreadActionFns
<1>2. ASSUME NEW s \in Unplated
      PROVE  /\ s \in BakingSessions
             /\ check_ingredients(s, d) \in Unplated
             /\ preheat_oven(s, d) \in Unplated
             /\ start_cooling(s, d) \in Cooled
  BY DEF Unplated, Cooled, BakingSessions, check_ingredients, preheat_oven, start_cooling
<1>3. \A s \in Unplated : \A o \in ActionFns["check_ingredients"][<<s, d>>] :
        o.session \in IF o.raises # None THEN back ELSE Unplated
  BY <1>2, BreadActions DEF Ok
<1>4. \A s \in Unplated : \A o \in ActionFns["preheat_oven"][<<s, d>>] :
        o.session \in IF o.raises # None THEN back ELSE Unplated
  BY <1>2, BreadActions DEF Ok
<1>5. \A s \in Unplated : \A o \in ActionFns["start_cooling"][<<s, d>>] :
        o.session \in IF o.raises # None THEN back ELSE Cooled
  BY <1>2, BreadActions DEF Ok
<1>6. QED BY <1>1, <1>3, <1>4, <1>5, OneActionLeads

(* Guards of bread.py answer. *)
LEMMA BreadAnswers ==
  ASSUME NEW s \in BakingSessions, NEW d \in Data
  PROVE  /\ GuardFns["ingredients_ready"][<<s, d>>] = {Ok(ingredients_ready(s, d), s)}
         /\ GuardFns["oven_is_cool"][<<s, d>>] = {Ok(oven_is_cool(s, d), s)}
         /\ ingredients_ready(s, d) # None
<1>1. <<s, d>> \in Sessions \X Data
  BY BreadAssumption
<1>2. /\ GuardFns["ingredients_ready"] = BreadGuardFns["ingredients_ready"]
      /\ GuardFns["oven_is_cool"] = BreadGuardFns["oven_is_cool"]
  BY BreadAssumption DEF Registers, BreadGuardFns
<1>3. BreadGuardFns["ingredients_ready"][<<s, d>>] = {Ok(ingredients_ready(s, d), s)}
  BY <1>1 DEF BreadGuardFns, Guard, Answers
<1>4. BreadGuardFns["oven_is_cool"][<<s, d>>] = {Ok(oven_is_cool(s, d), s)}
  BY <1>1 DEF BreadGuardFns, Guard, Answers
<1>5. s.ingredients_checked # None
  BY CallAssumption DEF BakingSessions
<1>6. ingredients_ready(s, d) # None
  BY <1>5, Zenon DEF ingredients_ready
<1>7. QED BY <1>2, <1>3, <1>4, <1>6

LEMMA BreadOnOutlined == OnOutlined(BreadConfig, BreadAt, BreadInto, BreadLost)
<1> SUFFICES ASSUME NEW q \in DOMAIN BreadConfig, NEW d \in Data,
                    NEW t \in OnCandidates(BreadConfig, q)
             PROVE  /\ HopLeads(BreadConfig, BreadAt, BreadInto, q, t, BreadLost[q], d)
                    /\ t.guard # None =>
                         \A s \in BreadAt[q] : \A o \in GuardFns[t.guard][<<s, d>>] :
                           o.raises # None \/ o.value = None => s \in BreadLost[q]
  BY DEF OnOutlined
<1>1. t.target \in DOMAIN BreadConfig
  BY BreadCandidates DEF On
<1>2. Leads(BreadConfig[t.target].entry, BreadInto[t.target], BreadAt[t.target], BreadLost[q], d)
  BY <1>1, BreadEntries
<1>3. \/ t.actions = <<"check_ingredients">> /\ q = "idle" /\ t.target = "mixing" /\ t.guard = None
      \/ t.actions = <<"preheat_oven">> /\ q = "mixing" /\ t.target = "baking"
           /\ t.guard = "ingredients_ready"
      \/ t.actions = <<"start_cooling">> /\ q = "baking" /\ t.target = "cooling" /\ t.guard = None
  BY BreadCandidates DEF On
<1>4. /\ Leaving(BreadAt, q, t, d) \subseteq BreadAt[q]
      /\ Leads(t.actions, BreadAt[q], BreadInto[t.target], BreadLost[q], d)
      /\ \E name : t.actions = <<name>>
  <2>1. Leaving(BreadAt, q, t, d) \subseteq BreadAt[q]
    BY DEF Leaving
  <2>2. QED BY <1>3, <2>1, BreadHops DEF BreadAt, BreadInto
<1>5. Leads(t.actions, Leaving(BreadAt, q, t, d), BreadInto[t.target], BreadLost[q], d)
  BY <1>4, MoreLeads
<1>6. ASSUME t.guard # None, NEW s \in BreadAt[q], NEW o \in GuardFns[t.guard][<<s, d>>]
      PROVE  o.raises = None /\ o.value # None
  <2>1. t.guard = "ingredients_ready" /\ s \in BakingSessions
    BY <1>3, <1>6 DEF BreadAt, Unplated
  <2>2. o = Ok(ingredients_ready(s, d), s) /\ ingredients_ready(s, d) # None
    BY <1>6, <2>1, BreadAnswers
  <2>3. QED BY <2>2 DEF Ok
<1>7. QED BY <1>2, <1>5, <1>6 DEF HopLeads

LEMMA BreadAlwaysOutlined == AlwaysOutlined(BreadConfig, BreadAt, BreadInto, BreadLevel)
<1> SUFFICES ASSUME NEW q \in DOMAIN BreadConfig
             PROVE  /\ BreadLevel[q] \in 0 .. MaxDepth - 1
                    /\ \A t \in Elements(BreadConfig[q].always) :
                         /\ HopLeads(BreadConfig, BreadAt, BreadInto, q, t, {}, "")
                         /\ BreadLevel[q] < BreadLevel[t.target]
                         /\ t.guard # None =>
                              \A s \in BreadAt[q] : \A o \in GuardFns[t.guard][<<s, "">>] :
                                o.raises = None /\ o.value # None
                    /\ BreadConfig[q].always # <<>> =>
                         \A s \in BreadAt[q] :
                           \E t \in Elements(BreadConfig[q].always) : ~MayRefuse(t, s)
  BY DEF AlwaysOutlined
<1>1. BreadLevel[q] \in 0 .. MaxDepth - 1
  BY BreadCandidates, ExamplesAssumption, DepthAssumption DEF BreadLevel
<1>2. CASE q # "cooling"
  BY <1>1, <1>2, BreadCandidates
<1>3. CASE q = "cooling"
  <2> DEFINE t == On("done", "oven_is_cool", <<>>)
  <2>1. /\ Elements(BreadConfig[q].always) = {t} /\ BreadAt[q] = Cooled
        /\ t.guard = "oven_is_cool" /\ t.target = "done" /\ t.actions = <<>>
        /\ BreadInto["done"] = Unplated /\ BreadLevel[q] < BreadLevel["done"]
    BY <1>3, BreadCandidates DEF On, BreadAt, BreadInto, BreadLevel
  <2> HIDE DEF t
  <2>2. HopLeads(BreadConfig, BreadAt, BreadInto, q, t, {}, "")
    <3>1. Leads(BreadConfig["done"].entry, BreadInto["done"], BreadAt["done"], {}, "")
      BY BreadCandidates, BreadEntries, PayloadAssumption
    <3>2. Leaving(BreadAt, q, t, "") \subseteq Unplated
      BY <2>1 DEF Leaving, Cooled
    <3>3. QED BY <2>1, <3>1, <3>2, NoActionLeads DEF HopLeads
  <2>3. ASSUME NEW s \in Cooled
        PROVE  GuardFns["oven_is_cool"][<<s, "">>] = {Ok(TRUE, s)}
    <3>1. s \in BakingSessions /\ <<s, "">> \in Sessions \X Data
      BY PayloadAssumption, BreadAssumption DEF Cooled, Unplated
    <3>4. s.oven_temp_c <= 30
      <4>1. s.oven_temp_c = 25
        BY DEF Cooled
      <4>2. QED BY <4>1
    <3>5. oven_is_cool(s, "") = TRUE
      BY <3>4, Zenon DEF oven_is_cool
    <3>6. QED BY <3>1, <3>5, BreadAnswers, PayloadAssumption
  <2>4. \A s \in Cooled : \A o \in GuardFns["oven_is_cool"][<<s, "">>] :
          o.raises = None /\ o.value = TRUE
    <3>1. \A s \in Cooled : Ok(TRUE, s).raises = None /\ Ok(TRUE, s).value = TRUE
      BY DEF Ok
    <3>2. QED BY <2>3, <3>1
  <2>5. \A s \in Cooled : ~MayRefuse(t, s)
    BY <2>1, <2>4 DEF MayRefuse, MayAnswer
  <2>6. TRUE # None
    BY CallAssumption
  <2>7. QED BY <1>1, <2>1, <2>2, <2>4, <2>5, <2>6
<1>4. QED BY <1>2, <1>3

LEMMA BreadOutlined == Outlined(BreadConfig, BreadAt, BreadInto, BreadLost, BreadLevel)
<1>1. GuardsLook(BreadConfig)
  <2>1. \A q \in DOMAIN BreadConfig : BreadConfig[q].exit = <<>>
    BY DEF BreadConfig, State, Leaf
  <2>2. \A q \in DOMAIN BreadConfig : \A t \in AllCandidates(BreadConfig, q) :
          t.guard \in {None, "ingredients_ready", "oven_is_cool"}
    BY BreadCandidates DEF AllCandidates, On
  <2>3. \A d \in Data : \A name \in {"ingredients_ready", "oven_is_cool"} :
          /\ name \in DOMAIN GuardFns
          /\ \A s \in Sessions : \A o \in GuardFns[name][<<s, d>>] : o.session = s
    BY BreadGuards
  <2>4. QED BY <2>1, <2>2, <2>3, PayloadAssumption DEF GuardsLook
<1>2. Begins(BreadConfig, BreadAt)
  <2>1. NewBakingSession \in BreadAt["idle"]
    BY DEF BreadAt, Unplated, BakingSessions, NewBakingSession
  <2>2. QED BY <2>1, BreadCandidates, BreadAssumption DEF Begins, Starts
<1>3. ErrorOutlined(BreadConfig, BreadAt, BreadInto, BreadLost)
  <2>1. \A q \in DOMAIN BreadConfig : BreadConfig[q].error_state \in {None, "failed"}
    BY DEF BreadConfig, State, Leaf
  <2>2. "failed" \in DOMAIN BreadConfig /\ \A q \in DOMAIN BreadConfig : BreadLost[q] = {}
    BY BreadCandidates DEF BreadLost
  <2>3. QED BY <2>1, <2>2, BreadEntries DEF ErrorOutlined
<1>4. QED BY <1>1, <1>2, <1>3, BreadOnOutlined, BreadAlwaysOutlined DEF Outlined

-----------------------------------------------------------------------------
(***************************************************************************)
(* examples/bank.py                                                        *)
(***************************************************************************)

Unposted == {s \in BankSessions : s.receipts = 0}

MissingFields(s) == {field \in REQUIRED_FIELDS : s[field] = None}

Resolved == {s \in Unposted : s.missing_fields = MissingFields(s)}

Complete == {s \in Unposted : \A field \in REQUIRED_FIELDS : s[field] # None}

Posted ==
  {s \in BankSessions :
     /\ s.receipts = 1
     /\ \A field \in REQUIRED_FIELDS : s[field] # None
     /\ s.amount # "large" /\ s.to_account \notin FROZEN_ACCOUNTS}

BankAt ==
  [idle |-> Unposted, txn_identify |-> Unposted, resolve_fields |-> Resolved,
   resolution_failed |-> Unposted, collect_data |-> Unposted, posting |-> Complete,
   posting_failed |-> Unposted, posting_pass |-> Posted]

BankInto ==
  [idle |-> Unposted, txn_identify |-> Unposted, resolve_fields |-> Unposted,
   resolution_failed |-> Unposted, collect_data |-> Unposted, posting |-> Complete,
   posting_failed |-> Unposted, posting_pass |-> Posted]

BankLevel ==
  [idle |-> 0, txn_identify |-> 0, resolve_fields |-> 1, resolution_failed |-> 2,
   collect_data |-> 0, posting |-> 2, posting_failed |-> 0, posting_pass |-> 0]

BankMessages ==
  {"create_txn", "log_unsupported_type", "log_missing_fields",
   "ask_teller_for_missing_fields", "prompt_confirm_post", "reject_over_limit",
   "notify_failure", "print_receipt"}

LEMMA BankMessagesOnly ==
  \A name \in BankMessages : name \in DOMAIN ActionFns /\ ActionFns[name] = Message
<1>1. \A name \in BankMessages : name \in DOMAIN BankActionFns /\ BankActionFns[name] = Message
  BY DEF BankMessages, BankActionFns
<1>2. QED BY <1>1, BankAssumption DEF Registers

LEMMA BankActions ==
  ASSUME NEW s \in BankSessions, NEW d \in Data
  PROVE  /\ \A name \in {"capture_identify_fields", "run_field_resolution",
                         "apply_teller_data", "call_ledger_api"} : name \in DOMAIN ActionFns
         /\ ActionFns["capture_identify_fields"][<<s, d>>] = capture_identify_fields(s, d)
         /\ ActionFns["run_field_resolution"][<<s, d>>] = {Ok(None, run_field_resolution(s, d))}
         /\ ActionFns["apply_teller_data"][<<s, d>>] = {Ok(None, apply_teller_data(s, d))}
         /\ ActionFns["call_ledger_api"][<<s, d>>] = call_ledger_api(s, d)
<1>1. <<s, d>> \in Sessions \X Data
  BY BankAssumption
<1>2. \A name \in {"capture_identify_fields", "run_field_resolution",
                   "apply_teller_data", "call_ledger_api"} : name \in DOMAIN BankActionFns
  BY DEF BankActionFns
<1>3. \A name \in DOMAIN BankActionFns :
        name \in DOMAIN ActionFns /\ ActionFns[name] = BankActionFns[name]
  BY BankAssumption DEF Registers
<1>4. BankActionFns["capture_identify_fields"][<<s, d>>] = capture_identify_fields(s, d)
  BY <1>1 DEF BankActionFns, Action, Answers
<1>5. BankActionFns["run_field_resolution"][<<s, d>>] = {Ok(None, run_field_resolution(s, d))}
  BY <1>1 DEF BankActionFns, Action, Answers
<1>6. BankActionFns["apply_teller_data"][<<s, d>>] = {Ok(None, apply_teller_data(s, d))}
  BY <1>1 DEF BankActionFns, Action, Answers
<1>7. BankActionFns["call_ledger_api"][<<s, d>>] = call_ledger_api(s, d)
  BY <1>1 DEF BankActionFns, Action, Answers
<1>8. QED BY <1>2, <1>3, <1>4, <1>5, <1>6, <1>7

LEMMA BankGuards ==
  ASSUME NEW d \in Data
  PROVE  \A name \in DOMAIN BankGuardFns :
           /\ name \in DOMAIN GuardFns /\ name # None
           /\ GuardFns[name] = BankGuardFns[name]
           /\ \A s \in Sessions : \A o \in GuardFns[name][<<s, d>>] : o.session = s
<1>1. \A name \in DOMAIN BankGuardFns :
        name \in DOMAIN GuardFns /\ GuardFns[name] = BankGuardFns[name]
  BY BankAssumption DEF Registers
<1>2. \A name \in DOMAIN BankGuardFns : name # None
  BY <1>1, CallAssumption DEF IsRegistry
<1> SUFFICES ASSUME NEW s \in Sessions, NEW name \in DOMAIN BankGuardFns
             PROVE  \A o \in BankGuardFns[name][<<s, d>>] : o.session = s
  BY <1>1, <1>2
<1>3. CASE name = "txn_type_supported"
  BY <1>3 DEF BankGuardFns, Guard, Answers, Ok
<1>4. CASE name = "txn_type_unsupported"
  BY <1>4 DEF BankGuardFns, Guard, Answers, Ok
<1>5. CASE name = "all_fields_resolved"
  BY <1>5 DEF BankGuardFns, Guard, Answers, Ok
<1>6. CASE name = "has_missing_fields"
  BY <1>6 DEF BankGuardFns, Guard, Answers, Ok
<1>7. CASE name = "exceeds_daily_limit"
  BY <1>7 DEF BankGuardFns, Guard, Answers, Ok
<1>8. CASE name = "within_daily_limit"
  BY <1>8 DEF BankGuardFns, within_daily_limit, Answers, Ok, Raise, Cancelled
<1>9. QED BY <1>3, <1>4, <1>5, <1>6, <1>7, <1>8 DEF BankGuardFns

(* What the guards that matter say of a session. *)
LEMMA BankAnswers ==
  ASSUME NEW s \in BankSessions, NEW d \in Data
  PROVE  /\ GuardFns["all_fields_resolved"][<<s, d>>] = {Ok(all_fields_resolved(s, d), s)}
         /\ GuardFns["has_missing_fields"][<<s, d>>] = {Ok(has_missing_fields(s, d), s)}
         /\ GuardFns["within_daily_limit"][<<s, d>>] = within_daily_limit(s, d)
<1>1. <<s, d>> \in Sessions \X Data
  BY BankAssumption
<1>2. \A name \in {"all_fields_resolved", "has_missing_fields", "within_daily_limit"} :
        name \in DOMAIN BankGuardFns
  BY DEF BankGuardFns
<1>3. \A name \in DOMAIN BankGuardFns : GuardFns[name] = BankGuardFns[name]
  BY BankAssumption DEF Registers
<1>4. BankGuardFns["all_fields_resolved"][<<s, d>>] = {Ok(all_fields_resolved(s, d), s)}
  BY <1>1 DEF BankGuardFns, Guard, Answers
<1>5. BankGuardFns["has_missing_fields"][<<s, d>>] = {Ok(has_missing_fields(s, d), s)}
  BY <1>1 DEF BankGuardFns, Guard, Answers
<1>6. BankGuardFns["within_daily_limit"][<<s, d>>] = within_daily_limit(s, d)
  BY <1>1 DEF BankGuardFns, Guard, Answers
<1>7. QED BY <1>2, <1>3, <1>4, <1>5, <1>6

LEMMA BankCandidates ==
  /\ DOMAIN BankConfig = {"idle", "txn_identify", "resolve_fields", "resolution_failed",
                          "collect_data", "posting", "posting_failed", "posting_pass"}
  /\ OnCandidates(BankConfig, "idle") = {On("txn_identify", None, <<"create_txn">>)}
  /\ OnCandidates(BankConfig, "txn_identify") =
       {On("resolve_fields", "txn_type_supported", <<"capture_identify_fields">>),
        On("resolution_failed", "txn_type_unsupported", <<"log_unsupported_type">>)}
  /\ OnCandidates(BankConfig, "resolution_failed") =
       {On("collect_data", None, <<"apply_teller_data">>)}
  /\ OnCandidates(BankConfig, "posting") =
       {On("posting_failed", "exceeds_daily_limit", <<"reject_over_limit">>),
        On("posting_pass", "within_daily_limit", <<"call_ledger_api">>)}
  /\ OnCandidates(BankConfig, "posting_failed") =
       {On("collect_data", None, <<"apply_teller_data">>)}
  /\ \A q \in {"resolve_fields", "collect_data", "posting_pass"} : OnCandidates(BankConfig, q) = {}
  /\ Elements(BankConfig["resolve_fields"].always) =
       {On("posting", "all_fields_resolved", <<>>),
        On("resolution_failed", "has_missing_fields", <<"log_missing_fields">>)}
  /\ Elements(BankConfig["collect_data"].always) = {On("resolve_fields", None, <<>>)}
  /\ \A q \in {"idle", "txn_identify", "resolution_failed", "posting", "posting_failed",
               "posting_pass"} :
       BankConfig[q].always = <<>> /\ Elements(BankConfig[q].always) = {}
<1>1. DOMAIN BankConfig = {"idle", "txn_identify", "resolve_fields", "resolution_failed",
                           "collect_data", "posting", "posting_failed", "posting_pass"}
  BY DEF BankConfig
<1>2. OnCandidates(BankConfig, "idle") = {On("txn_identify", None, <<"create_txn">>)}
  BY FewElements DEF OnCandidates, BankConfig, State
<1>3. OnCandidates(BankConfig, "txn_identify") =
        {On("resolve_fields", "txn_type_supported", <<"capture_identify_fields">>),
         On("resolution_failed", "txn_type_unsupported", <<"log_unsupported_type">>)}
  BY FewElements DEF OnCandidates, BankConfig, State
<1>4. OnCandidates(BankConfig, "resolution_failed") =
        {On("collect_data", None, <<"apply_teller_data">>)}
  BY FewElements DEF OnCandidates, BankConfig, State
<1>5. OnCandidates(BankConfig, "posting") =
        {On("posting_failed", "exceeds_daily_limit", <<"reject_over_limit">>),
         On("posting_pass", "within_daily_limit", <<"call_ledger_api">>)}
  BY FewElements DEF OnCandidates, BankConfig, posting, State
<1>6. OnCandidates(BankConfig, "posting_failed") =
        {On("collect_data", None, <<"apply_teller_data">>)}
  BY FewElements DEF OnCandidates, BankConfig, State
<1>7. \A q \in {"resolve_fields", "collect_data", "posting_pass"} :
        OnCandidates(BankConfig, q) = {}
  BY FewElements DEF OnCandidates, BankConfig, resolve_fields, State
<1>8. Elements(BankConfig["resolve_fields"].always) =
        {On("posting", "all_fields_resolved", <<>>),
         On("resolution_failed", "has_missing_fields", <<"log_missing_fields">>)}
  BY FewElements DEF BankConfig, resolve_fields, Resolution, State
<1>9. Elements(BankConfig["collect_data"].always) = {On("resolve_fields", None, <<>>)}
  BY FewElements DEF BankConfig, State, To
<1>10. \A q \in {"idle", "txn_identify", "resolution_failed", "posting", "posting_failed",
                 "posting_pass"} :
         BankConfig[q].always = <<>> /\ Elements(BankConfig[q].always) = {}
  BY FewElements DEF BankConfig, posting, State
<1>11. QED BY <1>1, <1>2, <1>3, <1>4, <1>5, <1>6, <1>7, <1>8, <1>9, <1>10

(* The data of a signal, in a transfer. *)
LEMMA BankData ==
  ASSUME NEW d \in Data
  PROVE  /\ DataOr(d, "txn_type", None) \in {None, "TRANSFER", "LOAN"}
         /\ DataOr(d, "from_account", None) \in {None, "ACC-1001"}
         /\ \A s \in Unposted : apply_teller_data(s, d) \in Unposted
<1>1. NewBankSession \in BankSessions
  BY DEF NewBankSession, BankSessions
<1>2. SetAttrs(NewBankSession, d) \in BankSessions
  BY <1>1, BankAssumption
<1>3. /\ SetAttrs(NewBankSession, d).txn_type = DataOr(d, "txn_type", None)
      /\ SetAttrs(NewBankSession, d).from_account = DataOr(d, "from_account", None)
  BY DEF SetAttrs, NewBankSession
<1>4. /\ SetAttrs(NewBankSession, d).txn_type \in {None, "TRANSFER", "LOAN"}
      /\ SetAttrs(NewBankSession, d).from_account \in {None, "ACC-1001"}
  BY <1>2 DEF BankSessions
<1>5. ASSUME NEW s \in Unposted
      PROVE  apply_teller_data(s, d) \in Unposted
  <2>1. s \in BankSessions /\ s.receipts = 0 /\ "receipts" \in DOMAIN s
    BY DEF Unposted, BankSessions
  <2>2. SetAttrs(s, d) \in BankSessions /\ ~Has(d, "receipts")
    BY <2>1, BankAssumption
  <2>3. SetAttrs(s, d).receipts = s.receipts
    BY <2>1, <2>2 DEF SetAttrs, DataOr
  <2>4. QED BY <2>1, <2>2, <2>3 DEF apply_teller_data, Unposted
<1>6. QED BY <1>3, <1>4, <1>5

(* A transfer is identified: whatever is missing, nothing is posted. *)
LEMMA Identified ==
  ASSUME NEW s \in Unposted, NEW d \in Data, NEW o \in capture_identify_fields(s, d)
  PROVE  o.session \in Unposted
<1> DEFINE typed == [s EXCEPT !.txn_type = DataOr(d, "txn_type", None)]
           named == [typed EXCEPT !.from_account = DataOr(d, "from_account", None)]
<1>1. s \in BankSessions /\ s.receipts = 0
  BY DEF Unposted
<1>2. typed \in BankSessions /\ typed.receipts = 0
  BY <1>1, BankData DEF BankSessions
<1>3. named \in BankSessions /\ named.receipts = 0
  <2>1. DataOr(d, "from_account", None) \in {None, "ACC-1001"}
    BY BankData
  <2> HIDE DEF typed
  <2>2. QED BY <1>2, <2>1 DEF BankSessions
<1>4. o \in {Raise("KeyError", s), Raise("KeyError", typed), Ok(None, named)}
  BY DEF capture_identify_fields
<1> HIDE DEF typed, named
<1>5. o.session \in {s, typed, named}
  BY <1>4 DEF Raise, Ok
<1>6. QED BY <1>1, <1>2, <1>3, <1>5 DEF Unposted

(* The ledger is asked once; if it refuses or the call is cancelled, the   *)
(* transfer is as it was.                                                  *)
LEMMA PostedOnce ==
  ASSUME NEW s \in Complete, s.amount # "large", NEW d \in Data,
         NEW o \in call_ledger_api(s, d)
  PROVE  o.session \in IF o.raises # None THEN Complete ELSE Posted
<1> DEFINE posted == [s EXCEPT !.receipts = IF @ < 2 THEN @ + 1 ELSE @]
<1>1. s \in BankSessions
  BY DEF Complete, Unposted
<1>6. \A field \in REQUIRED_FIELDS : s[field] # None
  BY DEF Complete
<1>2. posted = [s EXCEPT !.receipts = 1]
  <2>1. (IF s.receipts < 2 THEN s.receipts + 1 ELSE s.receipts) = 1
    <3>1. s.receipts = 0
      BY DEF Complete, Unposted
    <3>2. QED BY <3>1
  <2>2. QED BY <2>1, Zenon
<1>3. CASE o \in Cancelled(s) \/ s.to_account \in FROZEN_ACCOUNTS
  <2> HIDE DEF posted
  <2>5. o \in {Raise("CancelledError", s), Raise("Exception", s)}
    BY <1>3 DEF call_ledger_api, Cancelled
  <2>1. o.session = s /\ o.raises \in {"CancelledError", "Exception"}
    BY <2>5 DEF Raise
  <2>2. {"CancelledError", "Exception"} \subseteq Exceptions
    BY DEF Exceptions
  <2>3. o.raises # None
    BY <2>1, <2>2, CallAssumption
  <2>4. QED BY <2>1, <2>3
<1>4. CASE ~(o \in Cancelled(s) \/ s.to_account \in FROZEN_ACCOUNTS)
  <2>1. o = Ok(None, posted)
    BY <1>4 DEF call_ledger_api
  <2> HIDE DEF posted
  <2>2. o.raises = None /\ o.session = posted
    BY <2>1 DEF Ok
  <2>3. posted \in BankSessions /\ posted.receipts = 1
    BY <1>1, <1>2 DEF BankSessions
  <2>4. /\ posted.amount = s.amount /\ posted.to_account = s.to_account
        /\ \A field \in REQUIRED_FIELDS : posted[field] = s[field]
    <3>1. /\ {"amount", "to_account"} \cup REQUIRED_FIELDS \subseteq DOMAIN s
          /\ "receipts" \notin {"amount", "to_account"} \cup REQUIRED_FIELDS
      BY <1>1 DEF BankSessions, REQUIRED_FIELDS
    <3>2. \A field \in DOMAIN s : field # "receipts" => posted[field] = s[field]
      BY <1>2, Zenon
    <3>3. \A field \in {"amount", "to_account"} \cup REQUIRED_FIELDS : posted[field] = s[field]
      BY <3>1, <3>2
    <3>4. QED BY <3>3
  <2>6. posted \in Posted
    BY <1>6, <1>4, <2>3, <2>4 DEF Posted
  <2>7. QED BY <2>2, <2>6
<1>5. QED BY <1>3, <1>4

LEMMA BankHops ==
  ASSUME NEW d \in Data
  PROVE  /\ Leads(<<"capture_identify_fields">>, Unposted, Unposted, Unposted, d)
         /\ Leads(<<"apply_teller_data">>, Unposted, Unposted, {}, d)
         /\ Leads(<<"run_field_resolution">>, Unposted, Resolved, {}, d)
         /\ Leads(<<"call_ledger_api">>, {s \in Complete : s.amount # "large"},
                  Posted, Complete, d)
<1> DEFINE Allowable == {s \in Complete : s.amount # "large"}
<1>1. NewBankSession \in BankSessions
  BY DEF NewBankSession, BankSessions
<1>2. \A name \in {"capture_identify_fields", "run_field_resolution",
                   "apply_teller_data", "call_ledger_api"} : name \in DOMAIN ActionFns
  BY <1>1, BankActions
<1>3. Unposted \subseteq BankSessions /\ Complete \subseteq BankSessions
  BY DEF Unposted, Complete
<1>4. \A s \in Unposted : \A o \in ActionFns["capture_identify_fields"][<<s, d>>] :
        o.session \in IF o.raises # None THEN Unposted ELSE Unposted
  BY <1>3, BankActions, Identified
<1>5. \A s \in Unposted : \A o \in ActionFns["apply_teller_data"][<<s, d>>] :
        o.session \in IF o.raises # None THEN {} ELSE Unposted
  BY <1>3, BankActions, BankData DEF Ok
<1>6. ASSUME NEW s \in Unposted
      PROVE  run_field_resolution(s, d) \in Resolved
  <2> DEFINE resolved == [s EXCEPT !.missing_fields = MissingFields(s)]
  <2>1. run_field_resolution(s, d) = resolved
    BY DEF run_field_resolution, MissingFields
  <2>2. s \in BankSessions /\ s.receipts = 0
    BY DEF Unposted
  <2>3. MissingFields(s) \in SUBSET REQUIRED_FIELDS
    BY DEF MissingFields
  <2>4. /\ resolved \in BankSessions /\ resolved.receipts = 0
        /\ resolved.missing_fields = MissingFields(s)
        /\ \A field \in REQUIRED_FIELDS : resolved[field] = s[field]
    BY <2>2, <2>3 DEF BankSessions, REQUIRED_FIELDS
  <2> HIDE DEF resolved
  <2>5. MissingFields(resolved) = MissingFields(s)
    BY <2>4 DEF MissingFields
  <2>6. QED BY <2>1, <2>4, <2>5 DEF Resolved, Unposted
<1>7. \A s \in Unposted : \A o \in ActionFns["run_field_resolution"][<<s, d>>] :
        o.session \in IF o.raises # None THEN {} ELSE Resolved
  BY <1>3, <1>6, BankActions DEF Ok
<1>8. \A s \in Allowable : \A o \in ActionFns["call_ledger_api"][<<s, d>>] :
        o.session \in IF o.raises # None THEN Complete ELSE Posted
  BY <1>3, BankActions, PostedOnce
<1> HIDE DEF Allowable
<1>9. Leads(<<"call_ledger_api">>, Allowable, Posted, Complete, d)
  BY <1>2, <1>8, OneActionLeads
<1>10. /\ Leads(<<"capture_identify_fields">>, Unposted, Unposted, Unposted, d)
       /\ Leads(<<"apply_teller_data">>, Unposted, Unposted, {}, d)
       /\ Leads(<<"run_field_resolution">>, Unposted, Resolved, {}, d)
  BY <1>2, <1>4, <1>5, <1>7, OneActionLeads
<1>11. QED BY <1>9, <1>10 DEF Allowable

(* None of the entry actions fails. *)
LEMMA BankEntries ==
  ASSUME NEW q \in DOMAIN BankConfig, NEW d \in Data, NEW back
  PROVE  Leads(BankConfig[q].entry, BankInto[q], BankAt[q], back, d)
<1>1. Unposted \subseteq Sessions /\ Complete \subseteq Sessions /\ Posted \subseteq Sessions
  BY BankAssumption DEF Unposted, Complete, Posted
<1>2. CASE q = "resolve_fields"
  <2>1. /\ BankConfig[q].entry = <<"run_field_resolution">>
        /\ BankInto[q] = Unposted /\ BankAt[q] = Resolved
    BY <1>2 DEF BankConfig, resolve_fields, State, BankInto, BankAt
  <2>2. Leads(<<"run_field_resolution">>, Unposted, Resolved, {}, d)
    BY BankHops
  <2>3. QED BY <2>1, <2>2, MoreLeads
<1>3. CASE q \in {"resolution_failed", "posting", "posting_failed", "posting_pass"}
  <2>1. \E name \in BankMessages : BankConfig[q].entry = <<name>>
    <3>1. CASE q = "resolution_failed"
      BY <3>1 DEF BankConfig, State, BankMessages
    <3>2. CASE q = "posting"
      BY <3>2 DEF BankConfig, posting, State, BankMessages
    <3>3. CASE q = "posting_failed"
      BY <3>3 DEF BankConfig, State, BankMessages
    <3>4. CASE q = "posting_pass"
      BY <3>4 DEF BankConfig, State, BankMessages
    <3>5. QED BY <1>3, <3>1, <3>2, <3>3, <3>4
  <2>2. BankInto[q] = BankAt[q] /\ BankAt[q] \subseteq Sessions
    BY <1>1, <1>3 DEF BankInto, BankAt
  <2>3. QED BY <2>1, <2>2, BankMessagesOnly, MessageLeads
<1>4. CASE q \in {"idle", "txn_identify", "collect_data"}
  <2>1. BankConfig[q].entry = <<>> /\ BankInto[q] = BankAt[q]
    BY <1>4 DEF BankConfig, State, BankInto, BankAt
  <2>2. QED BY <2>1, NoActionLeads
<1>5. QED BY <1>2, <1>3, <1>4, BankCandidates

(* A signal that fails leaves a transfer that could still be in its state. *)
LEMMA BankOnOutlined == OnOutlined(BankConfig, BankAt, BankInto, BankAt)
<1> SUFFICES ASSUME NEW q \in DOMAIN BankConfig, NEW d \in Data,
                    NEW t \in OnCandidates(BankConfig, q)
             PROVE  HopLeads(BankConfig, BankAt, BankInto, q, t, BankAt[q], d)
  BY DEF OnOutlined
<1>1. t.target \in DOMAIN BankConfig
  BY BankCandidates DEF On
<1>2. Leads(BankConfig[t.target].entry, BankInto[t.target], BankAt[t.target], BankAt[q], d)
  BY <1>1, BankEntries
<1>3. Leaving(BankAt, q, t, d) \subseteq BankAt[q]
  BY DEF Leaving
<1>4. /\ Unposted \subseteq Sessions /\ Complete \subseteq Unposted /\ Complete \subseteq BankSessions
  BY BankAssumption DEF Unposted, Complete
<1>5. CASE q = "posting" /\ t = On("posting_pass", "within_daily_limit", <<"call_ledger_api">>)
  <2>1. /\ BankAt[q] = Complete /\ BankInto[t.target] = Posted /\ t.guard = "within_daily_limit"
        /\ t.actions = <<"call_ledger_api">>
    BY <1>5 DEF On, BankAt, BankInto
  <2>2. ASSUME NEW s \in Leaving(BankAt, q, t, d)
        PROVE  s \in Complete /\ s.amount # "large"
    <3>1. s \in Complete /\ MayPass(t, s, d)
      BY <2>1, <2>2 DEF Leaving
    <3>2. "within_daily_limit" \in DOMAIN BankGuardFns
      BY DEF BankGuardFns
    <3>3. t.guard # None
      BY <2>1, <3>2, BankGuards
    <3>4. PICK o \in within_daily_limit(s, d) : o.raises = None /\ o.value = TRUE
      BY <1>4, <2>1, <3>1, <3>3, BankAnswers DEF MayPass, MayAnswer
    <3>5. s.amount = "large" => o = Ok(FALSE, s) \/ o = Raise("CancelledError", s)
      BY DEF within_daily_limit, exceeds_daily_limit, Cancelled
    <3>6. o # Ok(FALSE, s) /\ o # Raise("CancelledError", s)
      <4>1. Ok(FALSE, s).value = FALSE /\ Raise("CancelledError", s).raises = "CancelledError"
        BY DEF Ok, Raise
      <4>2. "CancelledError" # None
        BY CallAssumption DEF Exceptions
      <4>3. QED BY <3>4, <4>1, <4>2
    <3>7. QED BY <3>1, <3>5, <3>6
  <2>3. Leaving(BankAt, q, t, d) \subseteq {s \in Complete : s.amount # "large"}
    BY <2>2
  <2>4. Leads(<<"call_ledger_api">>, {s \in Complete : s.amount # "large"}, Posted, Complete, d)
    BY BankHops
  <2>5. Leads(t.actions, Leaving(BankAt, q, t, d), BankInto[t.target], BankAt[q], d)
    BY <2>1, <2>3, <2>4, MoreLeads
  <2>6. QED BY <1>2, <2>5 DEF HopLeads
<1>6. CASE /\ t.actions \in {<<"capture_identify_fields">>, <<"apply_teller_data">>}
           /\ BankAt[q] = Unposted /\ BankInto[t.target] = Unposted
  <2>1. /\ Leads(<<"capture_identify_fields">>, Unposted, Unposted, Unposted, d)
        /\ Leads(<<"apply_teller_data">>, Unposted, Unposted, {}, d)
    BY BankHops
  <2>2. Leads(t.actions, Leaving(BankAt, q, t, d), BankInto[t.target], BankAt[q], d)
    BY <1>3, <1>6, <2>1, MoreLeads
  <2>3. QED BY <1>2, <2>2 DEF HopLeads
<1>7. CASE /\ \E name \in BankMessages : t.actions = <<name>>
           /\ BankAt[q] \subseteq Unposted /\ BankInto[t.target] = Unposted
  <2>1. PICK name \in BankMessages : t.actions = <<name>>
    BY <1>7
  <2>2. name \in DOMAIN ActionFns /\ ActionFns[name] = Message
    BY <2>1, BankMessagesOnly
  <2>3. /\ Leaving(BankAt, q, t, d) \subseteq Unposted
        /\ Leaving(BankAt, q, t, d) \subseteq Sessions
    BY <1>3, <1>4, <1>7
  <2>4. Leads(<<name>>, Leaving(BankAt, q, t, d), Unposted, BankAt[q], d)
    BY <2>2, <2>3, MessageLeads
  <2>5. QED BY <1>2, <1>7, <2>1, <2>4 DEF HopLeads
<1>8. \/ q = "posting" /\ t = On("posting_pass", "within_daily_limit", <<"call_ledger_api">>)
      \/ /\ t.actions \in {<<"capture_identify_fields">>, <<"apply_teller_data">>}
         /\ BankAt[q] = Unposted /\ BankInto[t.target] = Unposted
      \/ /\ \E name \in BankMessages : t.actions = <<name>>
         /\ BankAt[q] \subseteq Unposted /\ BankInto[t.target] = Unposted
  <2>1. CASE q = "idle"
    BY <2>1, BankCandidates DEF On, BankAt, BankInto, BankMessages
  <2>2. CASE q = "txn_identify"
    BY <2>2, BankCandidates DEF On, BankAt, BankInto, BankMessages
  <2>3. CASE q = "resolution_failed" \/ q = "posting_failed"
    BY <2>3, BankCandidates DEF On, BankAt, BankInto
  <2>4. CASE q = "posting"
    BY <1>4, <2>4, BankCandidates DEF On, BankAt, BankInto, BankMessages
  <2>5. CASE q \in {"resolve_fields", "collect_data", "posting_pass"}
    BY <2>5, BankCandidates
  <2>6. QED BY <2>1, <2>2, <2>3, <2>4, <2>5, BankCandidates
<1>9. QED BY <1>5, <1>6, <1>7, <1>8

(* The fields are resolved, or some of them are missing. *)
LEMMA ResolutionOutlined ==
  ASSUME NEW t \in Elements(BankConfig["resolve_fields"].always)
  PROVE  /\ HopLeads(BankConfig, BankAt, BankInto, "resolve_fields", t, {}, "")
         /\ BankLevel["resolve_fields"] < BankLevel[t.target]
         /\ \A s \in Resolved : \A o \in GuardFns[t.guard][<<s, "">>] :
              o.raises = None /\ o.value # None
<1>1. BankAt["resolve_fields"] = Resolved /\ "" \in Data /\ Resolved \subseteq BankSessions
  BY PayloadAssumption DEF BankAt, Resolved, Unposted
<1>2. \/ t = On("posting", "all_fields_resolved", <<>>)
      \/ t = On("resolution_failed", "has_missing_fields", <<"log_missing_fields">>)
  BY BankCandidates
<1>3. /\ t.target \in DOMAIN BankConfig /\ BankLevel["resolve_fields"] < BankLevel[t.target]
  BY <1>2, BankCandidates DEF On, BankLevel
<1>4. Leads(BankConfig[t.target].entry, BankInto[t.target], BankAt[t.target], {}, "")
  BY <1>1, <1>3, BankEntries
<1>5. CASE t = On("posting", "all_fields_resolved", <<>>)
  <2>1. /\ t.guard = "all_fields_resolved" /\ t.actions = <<>> /\ t.target = "posting"
        /\ BankInto["posting"] = Complete
    BY <1>5 DEF On, BankInto
  <2>2. \A s \in Resolved :
          GuardFns["all_fields_resolved"][<<s, "">>] = {Ok(all_fields_resolved(s, ""), s)}
    BY <1>1, BankAnswers
  <2>3. ASSUME NEW s \in Leaving(BankAt, "resolve_fields", t, "")
        PROVE  s \in Complete
    <3>1. s \in Resolved /\ MayPass(t, s, "")
      BY <1>1 DEF Leaving
    <3>2. "all_fields_resolved" \in DOMAIN BankGuardFns
      BY DEF BankGuardFns
    <3>3. t.guard # None
      BY <1>1, <2>1, <3>2, BankGuards
    <3>4. Ok(all_fields_resolved(s, ""), s).value = TRUE
      BY <2>1, <2>2, <3>1, <3>3 DEF MayPass, MayAnswer
    <3>5. s.missing_fields = {}
      BY <3>4 DEF Ok, all_fields_resolved
    <3>6. MissingFields(s) = {} /\ s \in Unposted
      BY <3>1, <3>5 DEF Resolved
    <3>7. QED BY <3>6 DEF MissingFields, Complete
  <2>4. HopLeads(BankConfig, BankAt, BankInto, "resolve_fields", t, {}, "")
    BY <1>4, <2>1, <2>3, NoActionLeads DEF HopLeads
  <2>5. \A s \in Resolved : /\ Ok(all_fields_resolved(s, ""), s).raises = None
                            /\ Ok(all_fields_resolved(s, ""), s).value \in BOOLEAN
    BY DEF Ok, all_fields_resolved
  <2>6. \A s \in Resolved : \A o \in GuardFns[t.guard][<<s, "">>] :
          o.raises = None /\ o.value \in BOOLEAN
    BY <2>1, <2>2, <2>5
  <2>7. QED BY <1>3, <2>4, <2>6, CallAssumption
<1>6. CASE t = On("resolution_failed", "has_missing_fields", <<"log_missing_fields">>)
  <2>1. /\ t.guard = "has_missing_fields" /\ t.actions = <<"log_missing_fields">>
        /\ t.target = "resolution_failed" /\ BankInto["resolution_failed"] = Unposted
    BY <1>6 DEF On, BankInto
  <2>2. \A s \in Resolved :
          GuardFns["has_missing_fields"][<<s, "">>] = {Ok(has_missing_fields(s, ""), s)}
    BY <1>1, BankAnswers
  <2>3. /\ Leaving(BankAt, "resolve_fields", t, "") \subseteq Unposted
        /\ Leaving(BankAt, "resolve_fields", t, "") \subseteq Sessions
    BY <1>1, BankAssumption DEF Leaving, Resolved
  <2>4. "log_missing_fields" \in DOMAIN ActionFns /\ ActionFns["log_missing_fields"] = Message
    BY BankMessagesOnly DEF BankMessages
  <2>5. Leads(<<"log_missing_fields">>, Leaving(BankAt, "resolve_fields", t, ""), Unposted, {}, "")
    BY <1>1, <2>3, <2>4, MessageLeads
  <2>6. HopLeads(BankConfig, BankAt, BankInto, "resolve_fields", t, {}, "")
    BY <1>4, <2>1, <2>5 DEF HopLeads
  <2>7. \A s \in Resolved : /\ Ok(has_missing_fields(s, ""), s).raises = None
                            /\ Ok(has_missing_fields(s, ""), s).value \in BOOLEAN
    BY DEF Ok, has_missing_fields
  <2>8. \A s \in Resolved : \A o \in GuardFns[t.guard][<<s, "">>] :
          o.raises = None /\ o.value \in BOOLEAN
    BY <2>1, <2>2, <2>7
  <2>9. QED BY <1>3, <2>6, <2>8, CallAssumption
<1>7. QED BY <1>2, <1>5, <1>6

LEMMA ResolutionGoesOn ==
  ASSUME NEW s \in Resolved
  PROVE  \E t \in Elements(BankConfig["resolve_fields"].always) : ~MayRefuse(t, s)
<1> DEFINE all == On("posting", "all_fields_resolved", <<>>)
           some == On("resolution_failed", "has_missing_fields", <<"log_missing_fields">>)
<1>1. all \in Elements(BankConfig["resolve_fields"].always)
      /\ some \in Elements(BankConfig["resolve_fields"].always)
      /\ all.guard = "all_fields_resolved" /\ some.guard = "has_missing_fields"
  BY BankCandidates DEF On
<1> HIDE DEF all, some
<1>2. s \in BankSessions /\ "" \in Data
  BY PayloadAssumption DEF Resolved, Unposted
<1>3. CASE s.missing_fields = {}
  <2>1. all_fields_resolved(s, "") = TRUE
    BY <1>3, Zenon DEF all_fields_resolved
  <2>2. GuardFns["all_fields_resolved"][<<s, "">>] = {Ok(TRUE, s)}
    BY <1>2, <2>1, BankAnswers
  <2>3. Ok(TRUE, s).value = TRUE
    BY DEF Ok
  <2>4. ~MayRefuse(all, s)
    BY <1>1, <2>2, <2>3 DEF MayRefuse, MayAnswer
  <2>5. QED BY <1>1, <2>4
<1>4. CASE s.missing_fields # {}
  <2>1. has_missing_fields(s, "") = TRUE
    BY <1>4, Zenon DEF has_missing_fields
  <2>2. GuardFns["has_missing_fields"][<<s, "">>] = {Ok(TRUE, s)}
    BY <1>2, <2>1, BankAnswers
  <2>3. Ok(TRUE, s).value = TRUE
    BY DEF Ok
  <2>4. ~MayRefuse(some, s)
    BY <1>1, <2>2, <2>3 DEF MayRefuse, MayAnswer
  <2>5. QED BY <1>1, <2>4
<1>5. QED BY <1>3, <1>4

LEMMA BankAlwaysOutlined == AlwaysOutlined(BankConfig, BankAt, BankInto, BankLevel)
<1> SUFFICES ASSUME NEW q \in DOMAIN BankConfig
             PROVE  /\ BankLevel[q] \in 0 .. MaxDepth - 1
                    /\ \A t \in Elements(BankConfig[q].always) :
                         /\ HopLeads(BankConfig, BankAt, BankInto, q, t, {}, "")
                         /\ BankLevel[q] < BankLevel[t.target]
                         /\ t.guard # None =>
                              \A s \in BankAt[q] : \A o \in GuardFns[t.guard][<<s, "">>] :
                                o.raises = None /\ o.value # None
                    /\ BankConfig[q].always # <<>> =>
                         \A s \in BankAt[q] :
                           \E t \in Elements(BankConfig[q].always) : ~MayRefuse(t, s)
  BY DEF AlwaysOutlined
<1>1. BankLevel[q] \in 0 .. MaxDepth - 1
  BY BankCandidates, ExamplesAssumption, DepthAssumption DEF BankLevel
<1>2. CASE q = "resolve_fields"
  <2>1. BankAt[q] = Resolved
    BY <1>2 DEF BankAt
  <2>2. QED BY <1>1, <1>2, <2>1, ResolutionOutlined, ResolutionGoesOn
<1>3. CASE q = "collect_data"
  <2> DEFINE t == On("resolve_fields", None, <<>>)
  <2>1. /\ Elements(BankConfig[q].always) = {t} /\ BankAt[q] = Unposted
        /\ t.guard = None /\ t.target = "resolve_fields" /\ t.actions = <<>>
        /\ BankInto["resolve_fields"] = Unposted /\ BankLevel[q] < BankLevel["resolve_fields"]
    BY <1>3, BankCandidates DEF On, BankAt, BankInto, BankLevel
  <2> HIDE DEF t
  <2>2. HopLeads(BankConfig, BankAt, BankInto, q, t, {}, "")
    <3>1. Leads(BankConfig["resolve_fields"].entry, BankInto["resolve_fields"],
                BankAt["resolve_fields"], {}, "")
      BY BankCandidates, BankEntries, PayloadAssumption
    <3>2. Leaving(BankAt, q, t, "") \subseteq Unposted
      BY <2>1 DEF Leaving
    <3>3. QED BY <2>1, <3>1, <3>2, NoActionLeads DEF HopLeads
  <2>3. \A s \in BankAt[q] : ~MayRefuse(t, s)
    BY <2>1 DEF MayRefuse
  <2>4. QED BY <1>1, <2>1, <2>2, <2>3
<1>4. CASE q \notin {"resolve_fields", "collect_data"}
  BY <1>1, <1>4, BankCandidates
<1>5. QED BY <1>2, <1>3, <1>4

LEMMA BankOutlined == Outlined(BankConfig, BankAt, BankInto, BankAt, BankLevel)
<1>1. GuardsLook(BankConfig)
  <2>1. \A q \in DOMAIN BankConfig : BankConfig[q].exit = <<>>
    BY DEF BankConfig, resolve_fields, posting, State
  <2>2. \A q \in DOMAIN BankConfig : \A t \in AllCandidates(BankConfig, q) :
          t.guard \in {None} \cup DOMAIN BankGuardFns
    <3>1. DOMAIN BankGuardFns =
            {"txn_type_supported", "txn_type_unsupported", "all_fields_resolved",
             "has_missing_fields", "exceeds_daily_limit", "within_daily_limit"}
      BY DEF BankGuardFns
    <3>2. QED BY <3>1, BankCandidates DEF AllCandidates, On
  <2>3. \A d \in Data : \A name \in DOMAIN BankGuardFns :
          /\ name \in DOMAIN GuardFns
          /\ \A s \in Sessions : \A o \in GuardFns[name][<<s, d>>] : o.session = s
    BY BankGuards
  <2>4. QED BY <2>1, <2>2, <2>3, PayloadAssumption DEF GuardsLook
<1>2. Begins(BankConfig, BankAt)
  <2>1. NewBankSession \in BankAt["idle"]
    BY DEF BankAt, Unposted, BankSessions, NewBankSession
  <2>2. QED BY <2>1, BankCandidates, BankAssumption DEF Begins, Starts
<1>3. ErrorOutlined(BankConfig, BankAt, BankInto, BankAt)
  <2> SUFFICES ASSUME NEW q \in DOMAIN BankConfig, BankConfig[q].error_state # None
               PROVE  /\ BankConfig[q].error_state \in DOMAIN BankConfig
                      /\ BankAt[q] \subseteq BankInto[BankConfig[q].error_state]
                      /\ \A d \in Data :
                           Leads(BankConfig[BankConfig[q].error_state].entry,
                                 BankInto[BankConfig[q].error_state],
                                 BankAt[BankConfig[q].error_state], BankAt[q], d)
    BY DEF ErrorOutlined
  <2>1. q = "posting" /\ BankConfig[q].error_state = "posting_failed"
    BY DEF BankConfig, resolve_fields, posting, State
  <2>2. "posting_failed" \in DOMAIN BankConfig /\ BankAt["posting"] \subseteq BankInto["posting_failed"]
    BY BankCandidates DEF BankAt, BankInto, Complete
  <2>3. QED BY <2>1, <2>2, BankEntries
<1>4. QED BY <1>1, <1>2, <1>3, BankOnOutlined, BankAlwaysOutlined DEF Outlined

-----------------------------------------------------------------------------
(***************************************************************************)
(* examples/pizza.py                                                       *)
(***************************************************************************)

(* On its way through the kitchen an order has no driver. *)
Waiting == {s \in PizzaSessions : s.driver_id = None /\ s.delivery_result # "delivered"}

Unpaid == {s \in Waiting : s.charges = 0}

Paid == {s \in PizzaSessions : s.charges = 1 /\ s.payment_result = "approved"}

(* The gateway has replied. *)
Replied ==
  {s \in Waiting : s \in Paid \/ (s.payment_result = "declined" /\ s.charges = 0)}

Cooking == {s \in Waiting : s \in Paid}

Made == {s \in Cooking : s.prep_status = "done"}

Checked == {s \in Made : s.quality_score > 0}

Passed ==
  {s \in Paid : s.prep_status = "done" /\ s.quality_score >= QUALITY_PASS_THRESHOLD}

ReadyToGo == {s \in Waiting : s \in Passed}

OnTheWay == {s \in Passed : s.driver_id # None /\ s.delivery_result # "delivered"}

Delivered == {s \in Passed : s.driver_id # None /\ s.delivery_result = "delivered"}

Cancellable == {s \in Waiting : s.charges <= 1}

PizzaAt ==
  [order_received |-> Unpaid, payment_processing |-> Replied, payment_failed |-> Unpaid,
   preparing |-> Made, baking |-> Made, quality_check |-> Checked, remaking |-> Cooking,
   cancelled |-> Cancellable, ready |-> ReadyToGo, assigning_driver |-> OnTheWay,
   out_for_delivery |-> OnTheWay, delivered |-> Delivered, delivery_failed |-> ReadyToGo]

PizzaInto ==
  [order_received |-> Unpaid, payment_processing |-> Unpaid, payment_failed |-> Unpaid,
   preparing |-> Cooking, baking |-> Made, quality_check |-> Made, remaking |-> Cooking,
   cancelled |-> Cancellable, ready |-> ReadyToGo, assigning_driver |-> ReadyToGo,
   out_for_delivery |-> OnTheWay, delivered |-> Delivered, delivery_failed |-> ReadyToGo]

(* The signals that may fail start a payment or the search for a driver. *)
PizzaLost ==
  [q \in DOMAIN PizzaConfig |->
     IF q \in {"order_received", "payment_failed"} THEN Unpaid
     ELSE IF q \in {"ready", "delivery_failed"} THEN ReadyToGo ELSE {}]

PizzaLevel ==
  [order_received |-> 0, payment_processing |-> 0, payment_failed |-> 1, preparing |-> 2,
   baking |-> 3, quality_check |-> 0, remaking |-> 1, cancelled |-> 0, ready |-> 1,
   assigning_driver |-> 0, out_for_delivery |-> 1, delivered |-> 0, delivery_failed |-> 0]
PizzaMessages ==
  {"notify_received", "notify_payment_success", "notify_payment_failure",
   "log_prep_complete", "start_baking", "log_quality_fail", "notify_ready",
   "notify_dispatch", "notify_cancellation"}

LEMMA PizzaMessagesOnly ==
  \A name \in PizzaMessages : name \in DOMAIN ActionFns /\ ActionFns[name] = Message
<1>1. \A name \in PizzaMessages : name \in DOMAIN PizzaActionFns /\ PizzaActionFns[name] = Message
  BY DEF PizzaMessages, PizzaActionFns
<1>2. QED BY <1>1, PizzaAssumption DEF Registers

PizzaWork ==
  {"create_order", "charge_card", "reset_payment", "start_preparation", "run_quality_check",
   "reset_for_remake", "find_driver", "complete_delivery", "handle_delivery_failure",
   "reset_driver"}

LEMMA PizzaWorkRegistered ==
  \A name \in PizzaWork : name \in DOMAIN ActionFns /\ ActionFns[name] = PizzaActionFns[name]
<1>1. PizzaWork \subseteq DOMAIN PizzaActionFns
  BY DEF PizzaWork, PizzaActionFns
<1>2. QED BY <1>1, PizzaAssumption DEF Registers

(* The first half of them: an order, its payment and the kitchen. *)
LEMMA PizzaActions ==
  ASSUME NEW s \in PizzaSessions, NEW d \in Data
  PROVE  /\ ActionFns["create_order"][<<s, d>>] = {Ok(None, create_order(s, d))}
         /\ ActionFns["charge_card"][<<s, d>>] = charge_card(s, d)
         /\ ActionFns["reset_payment"][<<s, d>>] = {Ok(None, reset_payment(s, d))}
         /\ ActionFns["start_preparation"][<<s, d>>] = {Ok(None, start_preparation(s, d))}
         /\ ActionFns["run_quality_check"][<<s, d>>] = {Ok(None, run_quality_check(s, d))}
         /\ ActionFns["reset_for_remake"][<<s, d>>] = {Ok(None, reset_for_remake(s, d))}
<1>1. <<s, d>> \in Sessions \X Data
  BY PizzaAssumption
<1>2. PizzaActionFns["create_order"][<<s, d>>] = {Ok(None, create_order(s, d))}
  BY <1>1 DEF PizzaActionFns, Action, Answers
<1>3. PizzaActionFns["charge_card"][<<s, d>>] = charge_card(s, d)
  BY <1>1 DEF PizzaActionFns, Answers
<1>4. PizzaActionFns["reset_payment"][<<s, d>>] = {Ok(None, reset_payment(s, d))}
  BY <1>1 DEF PizzaActionFns, Action, Answers
<1>5. PizzaActionFns["start_preparation"][<<s, d>>] = {Ok(None, start_preparation(s, d))}
  BY <1>1 DEF PizzaActionFns, Action, Answers
<1>6. PizzaActionFns["run_quality_check"][<<s, d>>] = {Ok(None, run_quality_check(s, d))}
  BY <1>1 DEF PizzaActionFns, Action, Answers
<1>7. PizzaActionFns["reset_for_remake"][<<s, d>>] = {Ok(None, reset_for_remake(s, d))}
  BY <1>1 DEF PizzaActionFns, Action, Answers
<1>8. QED BY <1>2, <1>3, <1>4, <1>5, <1>6, <1>7, PizzaWorkRegistered DEF PizzaWork

(* The other half: the delivery. *)
LEMMA DeliveryActions ==
  ASSUME NEW s \in PizzaSessions, NEW d \in Data
  PROVE  /\ ActionFns["find_driver"][<<s, d>>] = find_driver(s, d)
         /\ ActionFns["complete_delivery"][<<s, d>>] = {Ok(None, complete_delivery(s, d))}
         /\ ActionFns["handle_delivery_failure"][<<s, d>>] =
              {Ok(None, handle_delivery_failure(s, d))}
         /\ ActionFns["reset_driver"][<<s, d>>] = {Ok(None, reset_driver(s, d))}
<1>1. <<s, d>> \in Sessions \X Data
  BY PizzaAssumption
<1>2. PizzaActionFns["find_driver"][<<s, d>>] = find_driver(s, d)
  BY <1>1 DEF PizzaActionFns, Answers
<1>3. PizzaActionFns["complete_delivery"][<<s, d>>] = {Ok(None, complete_delivery(s, d))}
  BY <1>1 DEF PizzaActionFns, Action, Answers
<1>4. PizzaActionFns["handle_delivery_failure"][<<s, d>>] =
        {Ok(None, handle_delivery_failure(s, d))}
  BY <1>1 DEF PizzaActionFns, Action, Answers
<1>5. PizzaActionFns["reset_driver"][<<s, d>>] = {Ok(None, reset_driver(s, d))}
  BY <1>1 DEF PizzaActionFns, Action, Answers
<1>6. QED BY <1>2, <1>3, <1>4, <1>5, PizzaWorkRegistered DEF PizzaWork

LEMMA PizzaGuards ==
  ASSUME NEW d \in Data
  PROVE  \A name \in DOMAIN PizzaGuardFns :
           /\ name \in DOMAIN GuardFns /\ name # None
           /\ \A s \in Sessions : \A o \in GuardFns[name][<<s, d>>] : o.session = s
<1>1. \A name \in DOMAIN PizzaGuardFns :
        name \in DOMAIN GuardFns /\ GuardFns[name] = PizzaGuardFns[name]
  BY PizzaAssumption DEF Registers
<1>2. \A name \in DOMAIN PizzaGuardFns : name # None
  BY <1>1, CallAssumption DEF IsRegistry
<1> SUFFICES ASSUME NEW s \in Sessions, NEW name \in DOMAIN PizzaGuardFns
             PROVE  \A o \in PizzaGuardFns[name][<<s, d>>] : o.session = s
  BY <1>1, <1>2
<1>3. CASE name = "payment_approved"
  BY <1>3 DEF PizzaGuardFns, Guard, Answers, Ok
<1>4. CASE name = "payment_declined"
  BY <1>4 DEF PizzaGuardFns, Guard, Answers, Ok
<1>5. CASE name = "prep_complete"
  BY <1>5 DEF PizzaGuardFns, Guard, Answers, Ok
<1>6. CASE name = "quality_passed"
  BY <1>6 DEF PizzaGuardFns, Guard, Answers, Ok
<1>7. CASE name = "quality_failed"
  BY <1>7 DEF PizzaGuardFns, Guard, Answers, Ok
<1>8. CASE name = "driver_found"
  BY <1>8 DEF PizzaGuardFns, Guard, Answers, Ok
<1>9. QED BY <1>3, <1>4, <1>5, <1>6, <1>7, <1>8 DEF PizzaGuardFns

(* Every guard of pizza.py answers with a field of the session. *)
LEMMA PizzaAnswers ==
  ASSUME NEW s \in PizzaSessions
  PROVE  /\ GuardFns["payment_approved"][<<s, "">>] = {Ok(s.payment_result = "approved", s)}
         /\ GuardFns["payment_declined"][<<s, "">>] = {Ok(s.payment_result = "declined", s)}
         /\ GuardFns["prep_complete"][<<s, "">>] = {Ok(s.prep_status = "done", s)}
         /\ GuardFns["quality_passed"][<<s, "">>] = {Ok(s.quality_score >= 7, s)}
         /\ GuardFns["quality_failed"][<<s, "">>] =
              {Ok(0 < s.quality_score /\ s.quality_score < 7, s)}
         /\ GuardFns["driver_found"][<<s, "">>] = {Ok(s.driver_id # None, s)}
<1>1. <<s, "">> \in Sessions \X Data
  BY PizzaAssumption, PayloadAssumption
<1>2. \A name \in {"payment_approved", "payment_declined", "prep_complete", "quality_passed",
                   "quality_failed", "driver_found"} : GuardFns[name] = PizzaGuardFns[name]
  BY PizzaAssumption DEF Registers, PizzaGuardFns
<1>3. PizzaGuardFns["payment_approved"][<<s, "">>] = {Ok(s.payment_result = "approved", s)}
  BY <1>1 DEF PizzaGuardFns, Guard, Answers, payment_approved
<1>4. PizzaGuardFns["payment_declined"][<<s, "">>] = {Ok(s.payment_result = "declined", s)}
  BY <1>1 DEF PizzaGuardFns, Guard, Answers, payment_declined
<1>5. PizzaGuardFns["prep_complete"][<<s, "">>] = {Ok(s.prep_status = "done", s)}
  BY <1>1 DEF PizzaGuardFns, Guard, Answers, prep_complete
<1>6. PizzaGuardFns["quality_passed"][<<s, "">>] = {Ok(s.quality_score >= 7, s)}
  BY <1>1 DEF PizzaGuardFns, Guard, Answers, quality_passed, QUALITY_PASS_THRESHOLD
<1>7. PizzaGuardFns["quality_failed"][<<s, "">>] =
        {Ok(0 < s.quality_score /\ s.quality_score < 7, s)}
  BY <1>1 DEF PizzaGuardFns, Guard, Answers, quality_failed, QUALITY_PASS_THRESHOLD
<1>8. PizzaGuardFns["driver_found"][<<s, "">>] = {Ok(s.driver_id # None, s)}
  BY <1>1 DEF PizzaGuardFns, Guard, Answers, driver_found
<1>9. QED BY <1>2, <1>3, <1>4, <1>5, <1>6, <1>7, <1>8

LEMMA PizzaCandidates ==
  /\ DOMAIN PizzaConfig =
       {"order_received", "payment_processing", "payment_failed", "preparing", "baking",
        "quality_check", "remaking", "cancelled", "ready", "assigning_driver",
        "out_for_delivery", "delivered", "delivery_failed"}
  /\ OnCandidates(PizzaConfig, "order_received") =
       {On("payment_processing", None, <<"create_order", "notify_received">>)}
  /\ OnCandidates(PizzaConfig, "payment_failed") =
       {On("payment_processing", None, <<"reset_payment">>),
        On("cancelled", None, <<"notify_cancellation">>)}
  /\ OnCandidates(PizzaConfig, "baking") = {To("quality_check")}
  /\ OnCandidates(PizzaConfig, "ready") = {To("assigning_driver")}
  /\ OnCandidates(PizzaConfig, "out_for_delivery") =
       {On("delivered", None, <<"complete_delivery">>),
        On("delivery_failed", None, <<"handle_delivery_failure">>)}
  /\ OnCandidates(PizzaConfig, "delivery_failed") =
       {On("assigning_driver", None, <<"reset_driver">>),
        On("cancelled", None, <<"notify_cancellation">>)}
  /\ \A q \in {"payment_processing", "preparing", "quality_check", "remaking", "cancelled",
               "assigning_driver", "delivered"} : OnCandidates(PizzaConfig, q) = {}
<1>1. OnCandidates(PizzaConfig, "order_received") =
        {On("payment_processing", None, <<"create_order", "notify_received">>)}
  BY FewElements DEF OnCandidates, PizzaConfig, State
<1>2. OnCandidates(PizzaConfig, "payment_failed") =
        {On("payment_processing", None, <<"reset_payment">>),
         On("cancelled", None, <<"notify_cancellation">>)}
  BY FewElements DEF OnCandidates, PizzaConfig, State
<1>3. OnCandidates(PizzaConfig, "baking") = {To("quality_check")}
  BY FewElements DEF OnCandidates, PizzaConfig, State
<1>4. OnCandidates(PizzaConfig, "ready") = {To("assigning_driver")}
  BY FewElements DEF OnCandidates, PizzaConfig, State
<1>5. OnCandidates(PizzaConfig, "out_for_delivery") =
        {On("delivered", None, <<"complete_delivery">>),
         On("delivery_failed", None, <<"handle_delivery_failure">>)}
  BY FewElements DEF OnCandidates, PizzaConfig, State
<1>6. OnCandidates(PizzaConfig, "delivery_failed") =
        {On("assigning_driver", None, <<"reset_driver">>),
         On("cancelled", None, <<"notify_cancellation">>)}
  BY FewElements DEF OnCandidates, PizzaConfig, State
<1>7. \A q \in {"payment_processing", "preparing", "quality_check", "remaking", "cancelled",
                "assigning_driver", "delivered"} : OnCandidates(PizzaConfig, q) = {}
  BY FewElements DEF OnCandidates, PizzaConfig, State, Leaf
<1>8. DOMAIN PizzaConfig =
        {"order_received", "payment_processing", "payment_failed", "preparing", "baking",
         "quality_check", "remaking", "cancelled", "ready", "assigning_driver",
         "out_for_delivery", "delivered", "delivery_failed"}
  BY DEF PizzaConfig
<1>9. QED BY <1>1, <1>2, <1>3, <1>4, <1>5, <1>6, <1>7, <1>8

LEMMA PizzaAlways ==
  /\ Elements(PizzaConfig["payment_processing"].always) =
       {On("preparing", "payment_approved", <<"notify_payment_success">>),
        On("payment_failed", "payment_declined", <<"notify_payment_failure">>)}
  /\ Elements(PizzaConfig["preparing"].always) =
       {On("baking", "prep_complete", <<"log_prep_complete">>)}
  /\ Elements(PizzaConfig["quality_check"].always) =
       {On("ready", "quality_passed", <<>>),
        On("remaking", "quality_failed", <<"log_quality_fail">>)}
  /\ Elements(PizzaConfig["remaking"].always) = {To("preparing")}
  /\ Elements(PizzaConfig["assigning_driver"].always) =
       {On("out_for_delivery", "driver_found", <<"notify_dispatch">>)}
  /\ \A q \in {"order_received", "payment_failed", "baking", "cancelled", "ready",
               "out_for_delivery", "delivered", "delivery_failed"} :
       PizzaConfig[q].always = <<>> /\ Elements(PizzaConfig[q].always) = {}
<1>1. Elements(PizzaConfig["payment_processing"].always) =
        {On("preparing", "payment_approved", <<"notify_payment_success">>),
         On("payment_failed", "payment_declined", <<"notify_payment_failure">>)}
  BY FewElements DEF PizzaConfig, State
<1>2. Elements(PizzaConfig["preparing"].always) =
        {On("baking", "prep_complete", <<"log_prep_complete">>)}
  BY FewElements DEF PizzaConfig, State
<1>3. Elements(PizzaConfig["quality_check"].always) =
        {On("ready", "quality_passed", <<>>),
         On("remaking", "quality_failed", <<"log_quality_fail">>)}
  BY FewElements DEF PizzaConfig, State
<1>4. Elements(PizzaConfig["remaking"].always) = {To("preparing")}
  BY FewElements DEF PizzaConfig, State
<1>5. Elements(PizzaConfig["assigning_driver"].always) =
        {On("out_for_delivery", "driver_found", <<"notify_dispatch">>)}
  BY FewElements DEF PizzaConfig, State
<1>6. \A q \in {"order_received", "payment_failed", "baking", "cancelled", "ready",
                "out_for_delivery", "delivered", "delivery_failed"} :
        PizzaConfig[q].always = <<>> /\ Elements(PizzaConfig[q].always) = {}
  BY FewElements DEF PizzaConfig, State, Leaf
<1>7. QED BY <1>1, <1>2, <1>3, <1>4, <1>5, <1>6
-----------------------------------------------------------------------------
(* What the functions of pizza.py do to an order. *)

LEMMA OrderPlaced ==
  ASSUME NEW s \in Unpaid, NEW d \in Data
  PROVE  create_order(s, d) \in Unpaid /\ reset_payment(s, d) \in Unpaid
<1>1. /\ s \in PizzaSessions /\ s.driver_id = None /\ s.delivery_result # "delivered"
      /\ s.charges = 0
  BY DEF Unpaid, Waiting
<1>2. PICK m \in {"", "card", "cash"} : SetAttrs(s, d) = [s EXCEPT !.payment_method = m]
  BY <1>1, PizzaAssumption
<1>3. [s EXCEPT !.payment_method = m] \in Unpaid
  BY <1>1 DEF Unpaid, Waiting, PizzaSessions
<1>4. DataOr(d, "payment_method", s.payment_method) = m
  <2>1. "payment_method" \in DOMAIN s
    BY <1>1 DEF PizzaSessions
  <2>2. SetAttrs(s, d)["payment_method"] = DataOr(d, "payment_method", s["payment_method"])
    BY <2>1 DEF SetAttrs
  <2>3. [s EXCEPT !.payment_method = m]["payment_method"] = m
    BY <2>1
  <2>4. QED BY <1>2, <2>2, <2>3
<1>5. reset_payment(s, d) = [s EXCEPT !.payment_result = None, !.payment_method = m]
  <2>1. reset_payment(s, d) =
          [s EXCEPT !.payment_result = None,
                    !.payment_method = DataOr(d, "payment_method", s.payment_method)]
    BY <1>1 DEF reset_payment, PizzaSessions
  <2>2. QED BY <1>4, <2>1
<1>6. [s EXCEPT !.payment_result = None, !.payment_method = m] \in Unpaid
  BY <1>1 DEF Unpaid, Waiting, PizzaSessions
<1>7. QED BY <1>2, <1>3, <1>5, <1>6 DEF create_order

(* The card is charged once, or the payment is declined; a call cancelled  *)
(* at the gateway has charged nothing.                                     *)
LEMMA CardCharged ==
  ASSUME NEW s \in Unpaid, NEW d \in Data, NEW o \in charge_card(s, d)
  PROVE  o.session \in IF o.raises # None THEN Unpaid ELSE Replied
<1>1. /\ s \in PizzaSessions /\ s.driver_id = None /\ s.delivery_result # "delivered"
      /\ s.charges = 0
  BY DEF Unpaid, Waiting
<1>2. CASE o = Raise("CancelledError", s)
  <2>1. o.raises = "CancelledError" /\ o.session = s
    BY <1>2 DEF Raise
  <2>2. "CancelledError" # None
    BY CallAssumption DEF Exceptions
  <2>3. QED BY <2>1, <2>2
<1>3. CASE o = Ok(None, Charged(s))
  <2>1. o.raises = None /\ o.session = Charged(s)
    BY <1>3 DEF Ok
  <2>2. CASE s.payment_method = "cash"
    <3>1. Charged(s) = [s EXCEPT !.payment_result = "declined"]
      BY <2>2 DEF Charged
    <3>2. [s EXCEPT !.payment_result = "declined"] \in Replied
      BY <1>1 DEF Replied, Waiting, PizzaSessions
    <3>3. QED BY <2>1, <3>1, <3>2
  <2>3. CASE s.payment_method # "cash"
    <3>1. Charged(s) = [s EXCEPT !.payment_result = "approved", !.charges = 1]
      <4>1. OneMore(s.charges) = 1
        BY <1>1 DEF OneMore
      <4>2. Charged(s) = [s EXCEPT !.payment_result = "approved", !.charges = OneMore(s.charges)]
        BY <1>1, <2>3 DEF Charged, PizzaSessions
      <4>3. QED BY <4>1, <4>2
    <3>2. [s EXCEPT !.payment_result = "approved", !.charges = 1] \in Replied
      <4> DEFINE charged == [s EXCEPT !.payment_result = "approved", !.charges = 1]
      <4>1. charged \in PizzaSessions
        <5>1. 1 \in 0 .. 2
          OBVIOUS
        <5>2. QED BY <1>1, <5>1, Zenon DEF PizzaSessions
      <4>2. charged.charges = 1 /\ charged.payment_result = "approved"
        BY <1>1 DEF PizzaSessions
      <4>3. charged.driver_id = None /\ charged.delivery_result # "delivered"
        BY <1>1 DEF PizzaSessions
      <4> HIDE DEF charged
      <4>4. charged \in Replied
        BY <4>1, <4>2, <4>3 DEF Replied, Paid, Waiting
      <4>5. QED BY <4>4 DEF charged
    <3>3. QED BY <2>1, <3>1, <3>2
  <2>4. QED BY <2>2, <2>3
<1>4. QED BY <1>2, <1>3 DEF charge_card, Cancelled

LEMMA InTheKitchen ==
  /\ \A s \in Cooking, d \in Data :
       start_preparation(s, d) \in Made /\ reset_for_remake(s, d) \in Cooking
  /\ \A s \in Made, d \in Data : run_quality_check(s, d) \in Checked
<1>1. ASSUME NEW s \in Cooking, NEW d \in Data
      PROVE  start_preparation(s, d) \in Made /\ reset_for_remake(s, d) \in Cooking
  <2>1. /\ s \in PizzaSessions /\ s.driver_id = None /\ s.delivery_result # "delivered"
        /\ s.charges = 1 /\ s.payment_result = "approved"
    BY DEF Cooking, Waiting, Paid
  <2>2. [s EXCEPT !.prep_status = "done"] \in Made
    BY <2>1 DEF Made, Cooking, Waiting, Paid, PizzaSessions
  <2>3. [s EXCEPT !.prep_status = None, !.quality_score = 0] \in Cooking
    BY <2>1 DEF Cooking, Waiting, Paid, PizzaSessions
  <2>4. QED BY <2>2, <2>3 DEF start_preparation, reset_for_remake
<1>2. ASSUME NEW s \in Made, NEW d \in Data
      PROVE  run_quality_check(s, d) \in Checked
  <2>1. /\ s \in PizzaSessions /\ s.driver_id = None /\ s.delivery_result # "delivered"
        /\ s.charges = 1 /\ s.payment_result = "approved" /\ s.prep_status = "done"
    BY DEF Made, Cooking, Waiting, Paid
  <2>2. PICK n \in 0 .. 2, score \in {5, 9} :
          run_quality_check(s, d) = [s EXCEPT !.quality_attempts = n, !.quality_score = score]
    <3>1. s.quality_attempts \in 0 .. 2
      BY <2>1 DEF PizzaSessions
    <3>2. OneMore(s.quality_attempts) \in 0 .. 2
      BY <3>1 DEF OneMore
    <3>3. QED BY <3>2 DEF run_quality_check
  <2> DEFINE checked == [s EXCEPT !.quality_attempts = n, !.quality_score = score]
  <2>3. checked \in PizzaSessions /\ checked.quality_score > 0
    <3>1. score \in {0, 5, 9} /\ score > 0
      OBVIOUS
    <3>2. checked \in PizzaSessions
      BY <2>1, <3>1, Zenon DEF PizzaSessions
    <3>3. checked.quality_score = score
      BY <2>1 DEF PizzaSessions
    <3>4. QED BY <3>1, <3>2, <3>3
  <2>4. /\ checked.driver_id = None /\ checked.delivery_result # "delivered"
        /\ checked.charges = 1 /\ checked.payment_result = "approved"
        /\ checked.prep_status = "done"
    BY <2>1 DEF PizzaSessions
  <2> HIDE DEF checked
  <2>5. checked \in Checked
    BY <2>3, <2>4 DEF Checked, Made, Cooking, Waiting, Paid
  <2>6. QED BY <2>2, <2>5 DEF checked
<1>3. QED BY <1>1, <1>2

(* A call cancelled in the search for a driver has found none. *)
LEMMA DriverFound ==
  ASSUME NEW s \in ReadyToGo, NEW d \in Data, NEW o \in find_driver(s, d)
  PROVE  o.session \in IF o.raises # None THEN ReadyToGo ELSE OnTheWay
<1>1. /\ s \in PizzaSessions /\ s.driver_id = None /\ s.delivery_result # "delivered"
      /\ s.charges = 1 /\ s.payment_result = "approved"
      /\ s.prep_status = "done" /\ s.quality_score >= 7
  BY DEF ReadyToGo, Waiting, Passed, Paid, QUALITY_PASS_THRESHOLD
<1>2. CASE o = Raise("CancelledError", s)
  <2>1. o.raises = "CancelledError" /\ o.session = s
    BY <1>2 DEF Raise
  <2>2. "CancelledError" # None
    BY CallAssumption DEF Exceptions
  <2>3. QED BY <2>1, <2>2
<1>3. CASE o = Ok(None, [s EXCEPT !.driver_id = "DRV"])
  <2>1. o.raises = None /\ o.session = [s EXCEPT !.driver_id = "DRV"]
    BY <1>3 DEF Ok
  <2>2. [s EXCEPT !.driver_id = "DRV"] \in OnTheWay
    BY <1>1, PizzaAssumption
    DEF OnTheWay, Passed, Paid, QUALITY_PASS_THRESHOLD, PizzaSessions
  <2>3. QED BY <2>1, <2>2
<1>4. QED BY <1>2, <1>3 DEF find_driver, Cancelled

LEMMA OnTheRoad ==
  /\ \A s \in OnTheWay, d \in Data :
       complete_delivery(s, d) \in Delivered /\ handle_delivery_failure(s, d) \in ReadyToGo
  /\ \A s \in ReadyToGo, d \in Data : reset_driver(s, d) \in ReadyToGo
<1>1. ASSUME NEW s \in OnTheWay, NEW d \in Data
      PROVE  complete_delivery(s, d) \in Delivered /\ handle_delivery_failure(s, d) \in ReadyToGo
  <2>1. /\ s \in PizzaSessions /\ s.driver_id # None
        /\ s.charges = 1 /\ s.payment_result = "approved"
        /\ s.prep_status = "done" /\ s.quality_score >= 7
    BY DEF OnTheWay, Passed, Paid, QUALITY_PASS_THRESHOLD
  <2>2. [s EXCEPT !.delivery_result = "delivered"] \in Delivered
    BY <2>1 DEF Delivered, Passed, Paid, QUALITY_PASS_THRESHOLD, PizzaSessions
  <2>3. [s EXCEPT !.delivery_result = "failed", !.driver_id = None] \in ReadyToGo
    BY <2>1 DEF ReadyToGo, Waiting, Passed, Paid, QUALITY_PASS_THRESHOLD, PizzaSessions
  <2>4. QED BY <2>2, <2>3 DEF complete_delivery, handle_delivery_failure
<1>2. ASSUME NEW s \in ReadyToGo, NEW d \in Data
      PROVE  reset_driver(s, d) \in ReadyToGo
  <2>1. /\ s \in PizzaSessions
        /\ s.charges = 1 /\ s.payment_result = "approved"
        /\ s.prep_status = "done" /\ s.quality_score >= 7
    BY DEF ReadyToGo, Waiting, Passed, Paid, QUALITY_PASS_THRESHOLD
  <2>2. [s EXCEPT !.driver_id = None, !.delivery_result = None] \in ReadyToGo
    BY <2>1, PizzaAssumption
    DEF ReadyToGo, Waiting, Passed, Paid, QUALITY_PASS_THRESHOLD, PizzaSessions
  <2>3. QED BY <2>2 DEF reset_driver
<1>3. QED BY <1>1, <1>2

(* One set of orders within another. *)
LEMMA OrderSets ==
  /\ Unpaid \subseteq Cancellable /\ ReadyToGo \subseteq Cancellable
  /\ Made \subseteq Cooking /\ Checked \subseteq Cooking /\ Cooking \subseteq Replied
  /\ \A q \in DOMAIN PizzaConfig :
       PizzaAt[q] \subseteq PizzaSessions /\ PizzaInto[q] \subseteq PizzaSessions
<1>1. Unpaid \subseteq Cancellable
  BY DEF Unpaid, Cancellable
<1>2. ReadyToGo \subseteq Cancellable
  <2>1. \A s \in ReadyToGo : s \in Waiting /\ s.charges = 1
    BY DEF ReadyToGo, Passed, Paid
  <2>2. QED BY <2>1 DEF Cancellable
<1>3. Made \subseteq Cooking /\ Checked \subseteq Cooking /\ Cooking \subseteq Replied
  BY DEF Made, Checked, Cooking, Replied
<1>4. Waiting \subseteq PizzaSessions /\ Passed \subseteq PizzaSessions
  BY DEF Waiting, Passed, Paid
<1>5. /\ Unpaid \subseteq PizzaSessions /\ Replied \subseteq PizzaSessions
      /\ Made \subseteq PizzaSessions /\ Checked \subseteq PizzaSessions
      /\ Cooking \subseteq PizzaSessions /\ Cancellable \subseteq PizzaSessions
      /\ ReadyToGo \subseteq PizzaSessions /\ OnTheWay \subseteq PizzaSessions
      /\ Delivered \subseteq PizzaSessions
  BY <1>4 DEF Unpaid, Replied, Made, Checked, Cooking, Cancellable, ReadyToGo, OnTheWay, Delivered
<1>6. \A q \in DOMAIN PizzaConfig :
        PizzaAt[q] \subseteq PizzaSessions /\ PizzaInto[q] \subseteq PizzaSessions
  BY <1>5, PizzaCandidates DEF PizzaAt, PizzaInto
<1>7. QED BY <1>1, <1>2, <1>3, <1>6
-----------------------------------------------------------------------------
(* The outline of pizza.py. *)

LEMMA PizzaHops ==
  ASSUME NEW d \in Data
  PROVE  /\ Leads(<<"charge_card">>, Unpaid, Replied, Unpaid, d)
         /\ Leads(<<"reset_payment">>, Unpaid, Unpaid, {}, d)
         /\ Leads(<<"start_preparation">>, Cooking, Made, {}, d)
         /\ Leads(<<"run_quality_check">>, Made, Checked, {}, d)
         /\ Leads(<<"reset_for_remake">>, Cooking, Cooking, {}, d)
         /\ Leads(<<"find_driver">>, ReadyToGo, OnTheWay, ReadyToGo, d)
         /\ Leads(<<"complete_delivery">>, OnTheWay, Delivered, {}, d)
         /\ Leads(<<"handle_delivery_failure">>, OnTheWay, ReadyToGo, {}, d)
         /\ Leads(<<"reset_driver">>, ReadyToGo, ReadyToGo, {}, d)
<1>1. /\ \A name \in PizzaWork : name \in DOMAIN ActionFns
      /\ PizzaWork =
           {"create_order", "charge_card", "reset_payment", "start_preparation",
            "run_quality_check", "reset_for_remake", "find_driver", "complete_delivery",
            "handle_delivery_failure", "reset_driver"}
  BY PizzaWorkRegistered DEF PizzaWork
<1>2. /\ Unpaid \subseteq PizzaSessions /\ Cooking \subseteq PizzaSessions
      /\ Made \subseteq PizzaSessions /\ ReadyToGo \subseteq PizzaSessions
      /\ OnTheWay \subseteq PizzaSessions
  BY DEF Unpaid, Cooking, Made, ReadyToGo, OnTheWay, Waiting, Passed, Paid
<1>3. Leads(<<"charge_card">>, Unpaid, Replied, Unpaid, d)
  <2>1. \A s \in Unpaid : \A o \in ActionFns["charge_card"][<<s, d>>] :
          o.session \in IF o.raises # None THEN Unpaid ELSE Replied
    BY <1>2, PizzaActions, CardCharged
  <2>2. QED BY <1>1, <2>1, OneActionLeads
<1>4. Leads(<<"reset_payment">>, Unpaid, Unpaid, {}, d)
  <2>1. \A s \in Unpaid : \A o \in ActionFns["reset_payment"][<<s, d>>] :
          o.session \in IF o.raises # None THEN {} ELSE Unpaid
    BY <1>2, PizzaActions, OrderPlaced DEF Ok
  <2>2. QED BY <1>1, <2>1, OneActionLeads
<1>5. Leads(<<"start_preparation">>, Cooking, Made, {}, d)
  <2>1. \A s \in Cooking : \A o \in ActionFns["start_preparation"][<<s, d>>] :
          o.session \in IF o.raises # None THEN {} ELSE Made
    BY <1>2, PizzaActions, InTheKitchen DEF Ok
  <2>2. QED BY <1>1, <2>1, OneActionLeads
<1>6. Leads(<<"run_quality_check">>, Made, Checked, {}, d)
  <2>1. \A s \in Made : \A o \in ActionFns["run_quality_check"][<<s, d>>] :
          o.session \in IF o.raises # None THEN {} ELSE Checked
    BY <1>2, PizzaActions, InTheKitchen DEF Ok
  <2>2. QED BY <1>1, <2>1, OneActionLeads
<1>7. Leads(<<"reset_for_remake">>, Cooking, Cooking, {}, d)
  <2>1. \A s \in Cooking : \A o \in ActionFns["reset_for_remake"][<<s, d>>] :
          o.session \in IF o.raises # None THEN {} ELSE Cooking
    BY <1>2, PizzaActions, InTheKitchen DEF Ok
  <2>2. QED BY <1>1, <2>1, OneActionLeads
<1>8. Leads(<<"find_driver">>, ReadyToGo, OnTheWay, ReadyToGo, d)
  <2>1. \A s \in ReadyToGo : \A o \in ActionFns["find_driver"][<<s, d>>] :
          o.session \in IF o.raises # None THEN ReadyToGo ELSE OnTheWay
    BY <1>2, DeliveryActions, DriverFound
  <2>2. QED BY <1>1, <2>1, OneActionLeads
<1>9. Leads(<<"complete_delivery">>, OnTheWay, Delivered, {}, d)
  <2>1. \A s \in OnTheWay : \A o \in ActionFns["complete_delivery"][<<s, d>>] :
          o.session \in IF o.raises # None THEN {} ELSE Delivered
    BY <1>2, DeliveryActions, OnTheRoad DEF Ok
  <2>2. QED BY <1>1, <2>1, OneActionLeads
<1>10. Leads(<<"handle_delivery_failure">>, OnTheWay, ReadyToGo, {}, d)
  <2>1. \A s \in OnTheWay : \A o \in ActionFns["handle_delivery_failure"][<<s, d>>] :
          o.session \in IF o.raises # None THEN {} ELSE ReadyToGo
    BY <1>2, DeliveryActions, OnTheRoad DEF Ok
  <2>2. QED BY <1>1, <2>1, OneActionLeads
<1>11. Leads(<<"reset_driver">>, ReadyToGo, ReadyToGo, {}, d)
  <2>1. \A s \in ReadyToGo : \A o \in ActionFns["reset_driver"][<<s, d>>] :
          o.session \in IF o.raises # None THEN {} ELSE ReadyToGo
    BY <1>2, DeliveryActions, OnTheRoad DEF Ok
  <2>2. QED BY <1>1, <2>1, OneActionLeads
<1>12. QED BY <1>3, <1>4, <1>5, <1>6, <1>7, <1>8, <1>9, <1>10, <1>11

(* An order is created, and its customer told. *)
LEMMA ConfirmLeads ==
  ASSUME NEW d \in Data, NEW back
  PROVE  Leads(<<"create_order", "notify_received">>, Unpaid, Unpaid, back, d)
<1> DEFINE names == <<"create_order", "notify_received">>
<1>1. /\ "create_order" \in DOMAIN ActionFns /\ "notify_received" \in DOMAIN ActionFns
      /\ ActionFns["notify_received"] = Message
  BY PizzaWorkRegistered, PizzaMessagesOnly DEF PizzaWork, PizzaMessages
<1>2. DOMAIN names = {1, 2} /\ names[1] = "create_order" /\ names[2] = "notify_received"
      /\ Len(names) = 2 /\ names # <<>>
  OBVIOUS
<1>3. ASSUME NEW s \in Unpaid
      PROVE  /\ \A o \in ActionFns["create_order"][<<s, d>>] :
                  o.session \in Unpaid /\ o.raises = None
             /\ \A o \in ActionFns["notify_received"][<<s, d>>] :
                  o.session \in Unpaid /\ o.raises = None
  <2>1. s \in PizzaSessions /\ <<s, d>> \in Sessions \X Data
    BY PizzaAssumption DEF Unpaid, Waiting
  <2>2. ActionFns["create_order"][<<s, d>>] = {Ok(None, create_order(s, d))}
    BY <2>1, PizzaActions
  <2>3. ActionFns["notify_received"][<<s, d>>] = {Ok(None, s)}
    BY <1>1, <2>1 DEF Message
  <2>4. create_order(s, d) \in Unpaid
    BY OrderPlaced
  <2>5. QED BY <2>2, <2>3, <2>4 DEF Ok
<1> HIDE DEF names
<1>4. Leads(names, Unpaid, Unpaid, back, d)
  BY <1>1, <1>2, <1>3 DEF Leads
<1>5. QED BY <1>4 DEF names

(* Only a payment and the search for a driver may fail. *)
PizzaBack(q) ==
  IF q = "payment_processing" THEN Unpaid ELSE IF q = "assigning_driver" THEN ReadyToGo ELSE {}

LEMMA PizzaEntries ==
  ASSUME NEW q \in DOMAIN PizzaConfig, NEW d \in Data, NEW back, PizzaBack(q) \subseteq back
  PROVE  Leads(PizzaConfig[q].entry, PizzaInto[q], PizzaAt[q], back, d)
<1>1. PizzaInto[q] \subseteq Sessions
  BY PizzaAssumption, OrderSets
<1>2. CASE q = "payment_processing"
  <2>1. /\ PizzaConfig[q].entry = <<"charge_card">> /\ PizzaBack(q) = Unpaid
        /\ PizzaInto[q] = Unpaid /\ PizzaAt[q] = Replied
    BY <1>2 DEF PizzaConfig, State, PizzaInto, PizzaAt, PizzaBack
  <2>2. Leads(<<"charge_card">>, Unpaid, Replied, Unpaid, d)
    BY PizzaHops
  <2>3. QED BY <2>1, <2>2, MoreLeads
<1>3. CASE q = "assigning_driver"
  <2>1. /\ PizzaConfig[q].entry = <<"find_driver">> /\ PizzaBack(q) = ReadyToGo
        /\ PizzaInto[q] = ReadyToGo /\ PizzaAt[q] = OnTheWay
    BY <1>3 DEF PizzaConfig, State, PizzaInto, PizzaAt, PizzaBack
  <2>2. Leads(<<"find_driver">>, ReadyToGo, OnTheWay, ReadyToGo, d)
    BY PizzaHops
  <2>3. QED BY <2>1, <2>2, MoreLeads
<1>4. CASE q \in {"preparing", "quality_check", "remaking"}
  <2>1. /\ Leads(<<"start_preparation">>, Cooking, Made, {}, d)
        /\ Leads(<<"run_quality_check">>, Made, Checked, {}, d)
        /\ Leads(<<"reset_for_remake">>, Cooking, Cooking, {}, d)
    BY PizzaHops
  <2>2. \/ /\ PizzaConfig[q].entry = <<"start_preparation">>
           /\ PizzaInto[q] = Cooking /\ PizzaAt[q] = Made
        \/ /\ PizzaConfig[q].entry = <<"run_quality_check">>
           /\ PizzaInto[q] = Made /\ PizzaAt[q] = Checked
        \/ /\ PizzaConfig[q].entry = <<"reset_for_remake">>
           /\ PizzaInto[q] = Cooking /\ PizzaAt[q] = Cooking
    <3>1. CASE q = "preparing"
      BY <3>1 DEF PizzaConfig, State, PizzaInto, PizzaAt
    <3>2. CASE q = "quality_check"
      BY <3>2 DEF PizzaConfig, State, PizzaInto, PizzaAt
    <3>3. CASE q = "remaking"
      BY <3>3 DEF PizzaConfig, State, PizzaInto, PizzaAt
    <3>4. QED BY <1>4, <3>1, <3>2, <3>3
  <2>3. QED BY <2>1, <2>2, MoreLeads
<1>5. CASE q \in {"baking", "ready"}
  <2>1. /\ \E name \in PizzaMessages : PizzaConfig[q].entry = <<name>>
        /\ PizzaInto[q] = PizzaAt[q]
    <3>1. CASE q = "baking"
      BY <3>1 DEF PizzaConfig, State, PizzaInto, PizzaAt, PizzaMessages
    <3>2. CASE q = "ready"
      BY <3>2 DEF PizzaConfig, State, PizzaInto, PizzaAt, PizzaMessages
    <3>3. QED BY <1>5, <3>1, <3>2
  <2>2. QED BY <1>1, <2>1, PizzaMessagesOnly, MessageLeads
<1>6. CASE q \in {"order_received", "payment_failed", "cancelled", "out_for_delivery",
                  "delivered", "delivery_failed"}
  <2>1. PizzaConfig[q].entry = <<>> /\ PizzaInto[q] = PizzaAt[q]
    BY <1>6 DEF PizzaConfig, State, Leaf, PizzaInto, PizzaAt
  <2>2. QED BY <2>1, NoActionLeads
<1>7. QED BY <1>2, <1>3, <1>4, <1>5, <1>6, PizzaCandidates

(* A hop that at most sends a message. *)
LEMMA QuietHop ==
  ASSUME NEW c, NEW at, NEW into, NEW q, NEW t, NEW back, NEW d \in Data,
         t.actions = <<>> \/ \E name \in PizzaMessages : t.actions = <<name>>,
         Leaving(at, q, t, d) \subseteq into[t.target], into[t.target] \subseteq Sessions,
         Leads(c[t.target].entry, into[t.target], at[t.target], back, d)
  PROVE  HopLeads(c, at, into, q, t, back, d)
<1>1. Leaving(at, q, t, d) \subseteq Sessions
  OBVIOUS
<1>2. CASE t.actions = <<>>
  BY <1>2, NoActionLeads DEF HopLeads
<1>3. CASE \E name \in PizzaMessages : t.actions = <<name>>
  <2>1. PICK name \in PizzaMessages : t.actions = <<name>>
    BY <1>3
  <2>2. Leads(t.actions, Leaving(at, q, t, d), into[t.target], back, d)
    BY <1>1, <2>1, PizzaMessagesOnly, MessageLeads
  <2>3. QED BY <2>2 DEF HopLeads
<1>4. QED BY <1>2, <1>3

LEMMA PizzaOnOutlined == OnOutlined(PizzaConfig, PizzaAt, PizzaInto, PizzaLost)
<1> SUFFICES ASSUME NEW q \in DOMAIN PizzaConfig, NEW d \in Data,
                    NEW t \in OnCandidates(PizzaConfig, q)
             PROVE  /\ t.guard = None
                    /\ HopLeads(PizzaConfig, PizzaAt, PizzaInto, q, t, PizzaLost[q], d)
  BY DEF OnOutlined
<1>1. t.target \in DOMAIN PizzaConfig /\ t.guard = None
  BY PizzaCandidates DEF On, To
<1>2. PizzaBack(t.target) \subseteq PizzaLost[q]
  BY PizzaCandidates DEF On, To, PizzaBack, PizzaLost
<1>3. Leads(PizzaConfig[t.target].entry, PizzaInto[t.target], PizzaAt[t.target], PizzaLost[q], d)
  BY <1>1, <1>2, PizzaEntries
<1>4. Leaving(PizzaAt, q, t, d) \subseteq PizzaAt[q]
  BY DEF Leaving
<1>5. PizzaInto[t.target] \subseteq Sessions
  BY <1>1, PizzaAssumption, OrderSets
<1>6. \/ /\ t.actions = <<>> \/ \E name \in PizzaMessages : t.actions = <<name>>
         /\ PizzaAt[q] \subseteq PizzaInto[t.target]
      \/ t.actions = <<"create_order", "notify_received">>
           /\ PizzaAt[q] = Unpaid /\ PizzaInto[t.target] = Unpaid
      \/ t.actions = <<"reset_payment">> /\ PizzaAt[q] = Unpaid /\ PizzaInto[t.target] = Unpaid
      \/ t.actions = <<"complete_delivery">>
           /\ PizzaAt[q] = OnTheWay /\ PizzaInto[t.target] = Delivered
      \/ t.actions = <<"handle_delivery_failure">>
           /\ PizzaAt[q] = OnTheWay /\ PizzaInto[t.target] = ReadyToGo
      \/ t.actions = <<"reset_driver">>
           /\ PizzaAt[q] = ReadyToGo /\ PizzaInto[t.target] = ReadyToGo
  <2>1. CASE q = "order_received"
    BY <2>1, PizzaCandidates DEF On, PizzaAt, PizzaInto
  <2>2. CASE q = "payment_failed"
    BY <2>2, PizzaCandidates, OrderSets DEF On, PizzaAt, PizzaInto, PizzaMessages
  <2>3. CASE q = "baking"
    BY <2>3, PizzaCandidates DEF To, On, PizzaAt, PizzaInto
  <2>4. CASE q = "ready"
    BY <2>4, PizzaCandidates DEF To, On, PizzaAt, PizzaInto
  <2>5. CASE q = "out_for_delivery"
    BY <2>5, PizzaCandidates DEF On, PizzaAt, PizzaInto
  <2>6. CASE q = "delivery_failed"
    BY <2>6, PizzaCandidates, OrderSets DEF On, PizzaAt, PizzaInto, PizzaMessages
  <2>7. CASE q \in {"payment_processing", "preparing", "quality_check", "remaking", "cancelled",
                    "assigning_driver", "delivered"}
    BY <2>7, PizzaCandidates
  <2>8. QED BY <2>1, <2>2, <2>3, <2>4, <2>5, <2>6, <2>7, PizzaCandidates
<1>7. CASE /\ t.actions = <<>> \/ \E name \in PizzaMessages : t.actions = <<name>>
           /\ PizzaAt[q] \subseteq PizzaInto[t.target]
  BY <1>1, <1>3, <1>4, <1>5, <1>7, QuietHop
<1>8. CASE /\ t.actions = <<"create_order", "notify_received">>
           /\ PizzaAt[q] = Unpaid /\ PizzaInto[t.target] = Unpaid
  <2>1. Leads(t.actions, Unpaid, Unpaid, PizzaLost[q], d)
    BY <1>8, ConfirmLeads
  <2>2. Leaving(PizzaAt, q, t, d) = Unpaid
    BY <1>1, <1>8 DEF Leaving, MayPass
  <2>3. QED BY <1>1, <1>3, <1>8, <2>1, <2>2 DEF HopLeads
<1>9. CASE \E from, to : /\ Leads(t.actions, from, to, {}, d) /\ \E name : t.actions = <<name>>
                         /\ PizzaAt[q] = from /\ PizzaInto[t.target] = to
  <2>1. Leads(t.actions, Leaving(PizzaAt, q, t, d), PizzaInto[t.target], PizzaLost[q], d)
    BY <1>4, <1>9, MoreLeads
  <2>2. QED BY <1>1, <1>3, <2>1 DEF HopLeads
<1>10. /\ Leads(<<"reset_payment">>, Unpaid, Unpaid, {}, d)
       /\ Leads(<<"complete_delivery">>, OnTheWay, Delivered, {}, d)
       /\ Leads(<<"handle_delivery_failure">>, OnTheWay, ReadyToGo, {}, d)
       /\ Leads(<<"reset_driver">>, ReadyToGo, ReadyToGo, {}, d)
  BY PizzaHops
<1>11. QED BY <1>6, <1>7, <1>8, <1>9, <1>10
(* The answer of a guard of pizza.py, to an order it is asked about. *)
LEMMA OrderAnswered ==
  ASSUME NEW t, NEW s, NEW v \in BOOLEAN, t.guard # None,
         GuardFns[t.guard][<<s, "">>] = {Ok(v, s)}
  PROVE  /\ \A o \in GuardFns[t.guard][<<s, "">>] : o.raises = None /\ o.value # None
         /\ MayPass(t, s, "") => v = TRUE
         /\ MayRefuse(t, s) => v = FALSE
<1>1. Ok(v, s).raises = None /\ Ok(v, s).value = v
  BY DEF Ok
<1>2. v # None
  BY CallAssumption
<1>3. \A o \in GuardFns[t.guard][<<s, "">>] : o.raises = None /\ o.value = v
  BY <1>1
<1>4. QED BY <1>2, <1>3 DEF MayPass, MayRefuse, MayAnswer

(* What an always transition of pizza.py needs. *)
PizzaHop(q, t) ==
  /\ HopLeads(PizzaConfig, PizzaAt, PizzaInto, q, t, {}, "")
  /\ PizzaLevel[q] < PizzaLevel[t.target]
  /\ t.guard # None =>
       \A s \in PizzaAt[q] : \A o \in GuardFns[t.guard][<<s, "">>] :
         o.raises = None /\ o.value # None

GoesOn(q) ==
  \A s \in PizzaAt[q] : \E t \in Elements(PizzaConfig[q].always) : ~MayRefuse(t, s)

(* A transition with a guard of pizza.py has a guard. *)
LEMMA GuardNamed ==
  ASSUME NEW t, t.guard \in DOMAIN PizzaGuardFns
  PROVE  t.guard # None
BY PizzaGuards, PayloadAssumption

LEMMA HopOnTheWay ==
  ASSUME NEW q \in DOMAIN PizzaConfig, NEW t, t.target \in DOMAIN PizzaConfig,
         t.target \notin {"payment_processing", "assigning_driver"},
         t.actions = <<>> \/ \E name \in PizzaMessages : t.actions = <<name>>,
         Leaving(PizzaAt, q, t, "") \subseteq PizzaInto[t.target]
  PROVE  HopLeads(PizzaConfig, PizzaAt, PizzaInto, q, t, {}, "")
<1>1. PizzaBack(t.target) \subseteq {} /\ "" \in Data
  BY PayloadAssumption DEF PizzaBack
<1>2. Leads(PizzaConfig[t.target].entry, PizzaInto[t.target], PizzaAt[t.target], {}, "")
  BY <1>1, PizzaEntries
<1>3. PizzaInto[t.target] \subseteq Sessions
  BY PizzaAssumption, OrderSets
<1>4. QED BY <1>1, <1>2, <1>3, QuietHop

(* The payment is approved or declined. *)
LEMMA PaymentOutlined ==
  /\ \A t \in Elements(PizzaConfig["payment_processing"].always) : PizzaHop("payment_processing", t)
  /\ GoesOn("payment_processing")
<1> DEFINE yes == On("preparing", "payment_approved", <<"notify_payment_success">>)
           no == On("payment_failed", "payment_declined", <<"notify_payment_failure">>)
<1>1. /\ Elements(PizzaConfig["payment_processing"].always) = {yes, no}
      /\ PizzaAt["payment_processing"] = Replied /\ "payment_processing" \in DOMAIN PizzaConfig
      /\ PizzaInto["preparing"] = Cooking /\ PizzaInto["payment_failed"] = Unpaid
      /\ "preparing" \in DOMAIN PizzaConfig /\ "payment_failed" \in DOMAIN PizzaConfig
      /\ PizzaLevel["payment_processing"] < PizzaLevel["preparing"]
      /\ PizzaLevel["payment_processing"] < PizzaLevel["payment_failed"]
  BY PizzaAlways, PizzaCandidates DEF PizzaAt, PizzaInto, PizzaLevel
<1>2. /\ yes.target = "preparing" /\ yes.guard = "payment_approved"
      /\ yes.actions = <<"notify_payment_success">>
      /\ no.target = "payment_failed" /\ no.guard = "payment_declined"
      /\ no.actions = <<"notify_payment_failure">>
  BY DEF On
<1>3. /\ \E name \in PizzaMessages : yes.actions = <<name>>
      /\ \E name \in PizzaMessages : no.actions = <<name>>
  BY <1>2 DEF PizzaMessages
<1> HIDE DEF yes, no
<1>4. yes.guard # None /\ no.guard # None
  <2>1. "payment_approved" \in DOMAIN PizzaGuardFns /\ "payment_declined" \in DOMAIN PizzaGuardFns
    BY DEF PizzaGuardFns
  <2>2. yes.guard \in DOMAIN PizzaGuardFns /\ no.guard \in DOMAIN PizzaGuardFns
    BY <1>2, <2>1
  <2>3. QED BY <2>2, GuardNamed
<1>5. ASSUME NEW s \in Replied
      PROVE  /\ s \in PizzaSessions /\ s.payment_result \in {"approved", "declined"}
             /\ s.payment_result = "approved" => s \in Cooking
             /\ s.payment_result = "declined" => s \in Unpaid
  BY DEF Replied, Waiting, Paid, Cooking, Unpaid
<1>6. ASSUME NEW s \in Replied
      PROVE  /\ \A o \in GuardFns[yes.guard][<<s, "">>] : o.raises = None /\ o.value # None
             /\ MayPass(yes, s, "") => s.payment_result = "approved"
             /\ MayRefuse(yes, s) => s.payment_result # "approved"
  <2> DEFINE v == s.payment_result = "approved"
  <2>1. GuardFns[yes.guard][<<s, "">>] = {Ok(v, s)} /\ v \in BOOLEAN
    BY <1>2, <1>5, PizzaAnswers
  <2> HIDE DEF v
  <2>2. /\ \A o \in GuardFns[yes.guard][<<s, "">>] : o.raises = None /\ o.value # None
        /\ MayPass(yes, s, "") => v = TRUE
        /\ MayRefuse(yes, s) => v = FALSE
    BY <1>4, <2>1, OrderAnswered
  <2>3. QED BY <2>2 DEF v
<1>7. ASSUME NEW s \in Replied
      PROVE  /\ \A o \in GuardFns[no.guard][<<s, "">>] : o.raises = None /\ o.value # None
             /\ MayPass(no, s, "") => s.payment_result = "declined"
             /\ MayRefuse(no, s) => s.payment_result # "declined"
  <2> DEFINE v == s.payment_result = "declined"
  <2>1. GuardFns[no.guard][<<s, "">>] = {Ok(v, s)} /\ v \in BOOLEAN
    BY <1>2, <1>5, PizzaAnswers
  <2> HIDE DEF v
  <2>2. /\ \A o \in GuardFns[no.guard][<<s, "">>] : o.raises = None /\ o.value # None
        /\ MayPass(no, s, "") => v = TRUE
        /\ MayRefuse(no, s) => v = FALSE
    BY <1>4, <2>1, OrderAnswered
  <2>3. QED BY <2>2 DEF v
<1>8. /\ Leaving(PizzaAt, "payment_processing", yes, "") \subseteq Cooking
      /\ Leaving(PizzaAt, "payment_processing", no, "") \subseteq Unpaid
  BY <1>1, <1>5, <1>6, <1>7 DEF Leaving
<1>9. PizzaHop("payment_processing", yes) /\ PizzaHop("payment_processing", no)
  <2>1. HopLeads(PizzaConfig, PizzaAt, PizzaInto, "payment_processing", yes, {}, "")
    BY <1>1, <1>2, <1>3, <1>8, HopOnTheWay
  <2>2. HopLeads(PizzaConfig, PizzaAt, PizzaInto, "payment_processing", no, {}, "")
    BY <1>1, <1>2, <1>3, <1>8, HopOnTheWay
  <2>3. QED BY <1>1, <1>2, <1>6, <1>7, <2>1, <2>2 DEF PizzaHop
<1>10. GoesOn("payment_processing")
  BY <1>1, <1>5, <1>6, <1>7 DEF GoesOn
<1>11. QED BY <1>1, <1>9, <1>10

(* The pizza passes the check, or is made again. *)
LEMMA QualityOutlined ==
  /\ \A t \in Elements(PizzaConfig["quality_check"].always) : PizzaHop("quality_check", t)
  /\ GoesOn("quality_check")
<1> DEFINE yes == On("ready", "quality_passed", <<>>)
           no == On("remaking", "quality_failed", <<"log_quality_fail">>)
<1>1. /\ Elements(PizzaConfig["quality_check"].always) = {yes, no}
      /\ PizzaAt["quality_check"] = Checked /\ "quality_check" \in DOMAIN PizzaConfig
      /\ PizzaInto["ready"] = ReadyToGo /\ PizzaInto["remaking"] = Cooking
      /\ "ready" \in DOMAIN PizzaConfig /\ "remaking" \in DOMAIN PizzaConfig
      /\ PizzaLevel["quality_check"] < PizzaLevel["ready"]
      /\ PizzaLevel["quality_check"] < PizzaLevel["remaking"]
  BY PizzaAlways, PizzaCandidates DEF PizzaAt, PizzaInto, PizzaLevel
<1>2. /\ yes.target = "ready" /\ yes.guard = "quality_passed" /\ yes.actions = <<>>
      /\ no.target = "remaking" /\ no.guard = "quality_failed"
      /\ no.actions = <<"log_quality_fail">>
  BY DEF On
<1>3. \E name \in PizzaMessages : no.actions = <<name>>
  BY <1>2 DEF PizzaMessages
<1> HIDE DEF yes, no
<1>4. yes.guard # None /\ no.guard # None
  <2>1. "quality_passed" \in DOMAIN PizzaGuardFns /\ "quality_failed" \in DOMAIN PizzaGuardFns
    BY DEF PizzaGuardFns
  <2>2. yes.guard \in DOMAIN PizzaGuardFns /\ no.guard \in DOMAIN PizzaGuardFns
    BY <1>2, <2>1
  <2>3. QED BY <2>2, GuardNamed
<1>5. ASSUME NEW s \in Checked
      PROVE  /\ s \in PizzaSessions /\ s.quality_score \in {5, 9}
             /\ s.quality_score >= 7 => s \in ReadyToGo
             /\ s \in Cooking
  <2>1. s \in Made /\ s.quality_score > 0
    BY DEF Checked
  <2>2. s \in Cooking /\ s.prep_status = "done"
    BY <2>1 DEF Made
  <2>3. s \in Waiting /\ s \in Paid
    BY <2>2 DEF Cooking
  <2>4. s \in PizzaSessions
    BY <2>3 DEF Paid
  <2>5. s.quality_score \in {0, 5, 9}
    BY <2>4 DEF PizzaSessions
  <2>6. s.quality_score >= 7 => s \in ReadyToGo
    BY <2>2, <2>3 DEF ReadyToGo, Passed, QUALITY_PASS_THRESHOLD
  <2>7. QED BY <2>1, <2>2, <2>4, <2>5, <2>6
<1>6. ASSUME NEW s \in Checked
      PROVE  /\ \A o \in GuardFns[yes.guard][<<s, "">>] : o.raises = None /\ o.value # None
             /\ MayPass(yes, s, "") => s.quality_score >= 7
             /\ MayRefuse(yes, s) => ~(s.quality_score >= 7)
  <2> DEFINE v == s.quality_score >= 7
  <2>1. GuardFns[yes.guard][<<s, "">>] = {Ok(v, s)}
    BY <1>2, <1>5, PizzaAnswers
  <2>2. v \in BOOLEAN
    OBVIOUS
  <2> HIDE DEF v
  <2>3. /\ \A o \in GuardFns[yes.guard][<<s, "">>] : o.raises = None /\ o.value # None
        /\ MayPass(yes, s, "") => v = TRUE
        /\ MayRefuse(yes, s) => v = FALSE
    BY <1>4, <2>1, <2>2, OrderAnswered
  <2>4. (MayPass(yes, s, "") => v) /\ (MayRefuse(yes, s) => ~v)
    BY <2>3
  <2>5. QED BY <2>3, <2>4 DEF v
<1>7. ASSUME NEW s \in Checked
      PROVE  /\ \A o \in GuardFns[no.guard][<<s, "">>] : o.raises = None /\ o.value # None
             /\ MayRefuse(no, s) => s.quality_score >= 7
  <2> DEFINE v == 0 < s.quality_score /\ s.quality_score < 7
  <2>1. GuardFns[no.guard][<<s, "">>] = {Ok(v, s)} /\ v \in BOOLEAN
    BY <1>2, <1>5, PizzaAnswers
  <2>2. v = FALSE => s.quality_score >= 7
    BY <1>5
  <2> HIDE DEF v
  <2>3. /\ \A o \in GuardFns[no.guard][<<s, "">>] : o.raises = None /\ o.value # None
        /\ MayRefuse(no, s) => v = FALSE
    BY <1>4, <2>1, OrderAnswered
  <2>4. QED BY <2>2, <2>3
<1>8. /\ Leaving(PizzaAt, "quality_check", yes, "") \subseteq ReadyToGo
      /\ Leaving(PizzaAt, "quality_check", no, "") \subseteq Cooking
  BY <1>1, <1>5, <1>6 DEF Leaving
<1>9. PizzaHop("quality_check", yes) /\ PizzaHop("quality_check", no)
  <2>1. HopLeads(PizzaConfig, PizzaAt, PizzaInto, "quality_check", yes, {}, "")
    BY <1>1, <1>2, <1>8, HopOnTheWay
  <2>2. HopLeads(PizzaConfig, PizzaAt, PizzaInto, "quality_check", no, {}, "")
    BY <1>1, <1>2, <1>3, <1>8, HopOnTheWay
  <2>3. QED BY <1>1, <1>2, <1>6, <1>7, <2>1, <2>2 DEF PizzaHop
<1>10. GoesOn("quality_check")
  <2>1. \A s \in Checked : ~MayRefuse(yes, s) \/ ~MayRefuse(no, s)
    BY <1>5, <1>6, <1>7
  <2>2. QED BY <1>1, <2>1 DEF GoesOn
<1>11. QED BY <1>1, <1>9, <1>10
(* Only one way on, and it is open. *)
LEMMA OneWayOn ==
  ASSUME NEW q \in DOMAIN PizzaConfig, NEW t, Elements(PizzaConfig[q].always) = {t},
         t.guard # None, \A s \in PizzaAt[q] : GuardFns[t.guard][<<s, "">>] = {Ok(TRUE, s)}
  PROVE  /\ GoesOn(q)
         /\ \A s \in PizzaAt[q] : \A o \in GuardFns[t.guard][<<s, "">>] :
              o.raises = None /\ o.value # None
<1>1. ASSUME NEW s \in PizzaAt[q]
      PROVE  /\ \A o \in GuardFns[t.guard][<<s, "">>] : o.raises = None /\ o.value # None
             /\ MayRefuse(t, s) => FALSE
  <2>1. GuardFns[t.guard][<<s, "">>] = {Ok(TRUE, s)}
    OBVIOUS
  <2>2. /\ \A o \in GuardFns[t.guard][<<s, "">>] : o.raises = None /\ o.value # None
        /\ MayRefuse(t, s) => TRUE = FALSE
    BY <2>1, OrderAnswered
  <2>3. QED BY <2>2
<1>2. QED BY <1>1 DEF GoesOn

(* The preparation is complete. *)
LEMMA PreparationOutlined ==
  /\ \A t \in Elements(PizzaConfig["preparing"].always) : PizzaHop("preparing", t)
  /\ GoesOn("preparing")
<1> DEFINE t == On("baking", "prep_complete", <<"log_prep_complete">>)
           Prepared(s) == s.prep_status = "done"
<1>1. /\ Elements(PizzaConfig["preparing"].always) = {t}
      /\ PizzaAt["preparing"] = Made /\ "preparing" \in DOMAIN PizzaConfig
      /\ PizzaInto["baking"] = Made /\ "baking" \in DOMAIN PizzaConfig
      /\ PizzaLevel["preparing"] < PizzaLevel["baking"]
  BY PizzaAlways, PizzaCandidates DEF PizzaAt, PizzaInto, PizzaLevel
<1>2. t.target = "baking" /\ t.guard = "prep_complete" /\ t.actions = <<"log_prep_complete">>
  BY DEF On
<1>3. \E name \in PizzaMessages : t.actions = <<name>>
  BY <1>2 DEF PizzaMessages
<1> HIDE DEF t
<1>4. t.guard # None
  <2>1. t.guard \in DOMAIN PizzaGuardFns
    BY <1>2 DEF PizzaGuardFns
  <2>2. QED BY <2>1, GuardNamed
<1>5. ASSUME NEW s \in Made
      PROVE  s \in PizzaSessions /\ Prepared(s) = TRUE
  BY DEF Made, Cooking, Paid
<1>6. \A s \in Made : GuardFns[t.guard][<<s, "">>] = {Ok(TRUE, s)}
  <2>1. \A s \in Made : GuardFns[t.guard][<<s, "">>] = {Ok(Prepared(s), s)}
    BY <1>2, <1>5, PizzaAnswers
  <2> HIDE DEF Prepared
  <2>2. QED BY <1>5, <2>1
<1> HIDE DEF Prepared
<1>7. /\ GoesOn("preparing")
      /\ \A s \in Made : \A o \in GuardFns[t.guard][<<s, "">>] : o.raises = None /\ o.value # None
  BY <1>1, <1>4, <1>6, OneWayOn
<1>8. HopLeads(PizzaConfig, PizzaAt, PizzaInto, "preparing", t, {}, "")
  <2>1. Leaving(PizzaAt, "preparing", t, "") \subseteq PizzaInto[t.target]
    BY <1>1, <1>2 DEF Leaving
  <2>2. QED BY <1>1, <1>2, <1>3, <2>1, HopOnTheWay
<1>9. PizzaHop("preparing", t)
  BY <1>1, <1>2, <1>7, <1>8 DEF PizzaHop
<1>10. QED BY <1>1, <1>7, <1>9

(* A driver was found. *)
LEMMA DispatchOutlined ==
  /\ \A t \in Elements(PizzaConfig["assigning_driver"].always) : PizzaHop("assigning_driver", t)
  /\ GoesOn("assigning_driver")
<1> DEFINE t == On("out_for_delivery", "driver_found", <<"notify_dispatch">>)
           Found(s) == s.driver_id # None
<1>1. /\ Elements(PizzaConfig["assigning_driver"].always) = {t}
      /\ PizzaAt["assigning_driver"] = OnTheWay /\ "assigning_driver" \in DOMAIN PizzaConfig
      /\ PizzaInto["out_for_delivery"] = OnTheWay /\ "out_for_delivery" \in DOMAIN PizzaConfig
      /\ PizzaLevel["assigning_driver"] < PizzaLevel["out_for_delivery"]
  BY PizzaAlways, PizzaCandidates DEF PizzaAt, PizzaInto, PizzaLevel
<1>2. /\ t.target = "out_for_delivery" /\ t.guard = "driver_found"
      /\ t.actions = <<"notify_dispatch">>
  BY DEF On
<1>3. \E name \in PizzaMessages : t.actions = <<name>>
  BY <1>2 DEF PizzaMessages
<1> HIDE DEF t
<1>4. t.guard # None
  <2>1. t.guard \in DOMAIN PizzaGuardFns
    BY <1>2 DEF PizzaGuardFns
  <2>2. QED BY <2>1, GuardNamed
<1>5. ASSUME NEW s \in OnTheWay
      PROVE  s \in PizzaSessions /\ Found(s) = TRUE
  BY DEF OnTheWay, Passed, Paid
<1>6. \A s \in OnTheWay : GuardFns[t.guard][<<s, "">>] = {Ok(TRUE, s)}
  <2>1. \A s \in OnTheWay : GuardFns[t.guard][<<s, "">>] = {Ok(Found(s), s)}
    BY <1>2, <1>5, PizzaAnswers
  <2> HIDE DEF Found
  <2>2. QED BY <1>5, <2>1
<1> HIDE DEF Found
<1>7. /\ GoesOn("assigning_driver")
      /\ \A s \in OnTheWay : \A o \in GuardFns[t.guard][<<s, "">>] :
           o.raises = None /\ o.value # None
  BY <1>1, <1>4, <1>6, OneWayOn
<1>8. HopLeads(PizzaConfig, PizzaAt, PizzaInto, "assigning_driver", t, {}, "")
  <2>1. Leaving(PizzaAt, "assigning_driver", t, "") \subseteq PizzaInto[t.target]
    BY <1>1, <1>2 DEF Leaving
  <2>2. QED BY <1>1, <1>2, <1>3, <2>1, HopOnTheWay
<1>9. PizzaHop("assigning_driver", t)
  BY <1>1, <1>2, <1>7, <1>8 DEF PizzaHop
<1>10. QED BY <1>1, <1>7, <1>9

(* A pizza that failed the check is prepared again. *)
LEMMA RemakeOutlined ==
  /\ \A t \in Elements(PizzaConfig["remaking"].always) : PizzaHop("remaking", t)
  /\ GoesOn("remaking")
<1> DEFINE t == To("preparing")
<1>1. /\ Elements(PizzaConfig["remaking"].always) = {t}
      /\ PizzaAt["remaking"] = Cooking /\ "remaking" \in DOMAIN PizzaConfig
      /\ PizzaInto["preparing"] = Cooking /\ "preparing" \in DOMAIN PizzaConfig
      /\ PizzaLevel["remaking"] < PizzaLevel["preparing"]
  BY PizzaAlways, PizzaCandidates DEF PizzaAt, PizzaInto, PizzaLevel
<1>2. t.target = "preparing" /\ t.guard = None /\ t.actions = <<>>
  BY DEF To, On
<1> HIDE DEF t
<1>3. HopLeads(PizzaConfig, PizzaAt, PizzaInto, "remaking", t, {}, "")
  <2>1. Leaving(PizzaAt, "remaking", t, "") \subseteq PizzaInto[t.target]
    BY <1>1, <1>2 DEF Leaving
  <2>2. QED BY <1>1, <1>2, <2>1, HopOnTheWay
<1>4. PizzaHop("remaking", t)
  BY <1>1, <1>2, <1>3 DEF PizzaHop
<1>5. \A s \in PizzaAt["remaking"] : ~MayRefuse(t, s)
  BY <1>2 DEF MayRefuse
<1>6. QED BY <1>1, <1>4, <1>5 DEF GoesOn

LEMMA PizzaAlwaysOutlined == AlwaysOutlined(PizzaConfig, PizzaAt, PizzaInto, PizzaLevel)
<1> SUFFICES ASSUME NEW q \in DOMAIN PizzaConfig
             PROVE  /\ PizzaLevel[q] \in 0 .. MaxDepth - 1
                    /\ \A t \in Elements(PizzaConfig[q].always) : PizzaHop(q, t)
                    /\ PizzaConfig[q].always # <<>> => GoesOn(q)
  BY DEF AlwaysOutlined, PizzaHop, GoesOn
<1>1. PizzaLevel[q] \in 0 .. MaxDepth - 1
  <2>1. PizzaLevel[q] \in 0 .. 3
    BY PizzaCandidates DEF PizzaLevel
  <2>2. QED BY <2>1, ExamplesAssumption, DepthAssumption
<1>2. CASE q \in {"payment_processing", "quality_check", "preparing", "assigning_driver",
                  "remaking"}
  BY <1>1, <1>2, PaymentOutlined, QualityOutlined, PreparationOutlined, DispatchOutlined,
     RemakeOutlined
<1>3. CASE q \in {"order_received", "payment_failed", "baking", "cancelled", "ready",
                  "out_for_delivery", "delivered", "delivery_failed"}
  BY <1>1, <1>3, PizzaAlways
<1>4. QED BY <1>2, <1>3, PizzaCandidates

LEMMA PizzaOutlined == Outlined(PizzaConfig, PizzaAt, PizzaInto, PizzaLost, PizzaLevel)
<1>1. GuardsLook(PizzaConfig)
  <2>1. \A q \in DOMAIN PizzaConfig : PizzaConfig[q].exit = <<>>
    BY DEF PizzaConfig, State, Leaf
  <2>2. \A q \in DOMAIN PizzaConfig : \A t \in OnCandidates(PizzaConfig, q) : t.guard = None
    BY PizzaCandidates DEF On, To
  <2>3. \A q \in DOMAIN PizzaConfig : \A t \in Elements(PizzaConfig[q].always) :
          t.guard \in {None} \cup DOMAIN PizzaGuardFns
    <3>1. DOMAIN PizzaGuardFns =
            {"payment_approved", "payment_declined", "prep_complete", "quality_passed",
             "quality_failed", "driver_found"}
      BY DEF PizzaGuardFns
    <3>2. QED BY <3>1, PizzaCandidates, PizzaAlways DEF On, To
  <2>4. \A d \in Data : \A name \in DOMAIN PizzaGuardFns :
          /\ name \in DOMAIN GuardFns
          /\ \A s \in Sessions : \A o \in GuardFns[name][<<s, d>>] : o.session = s
    BY PizzaGuards
  <2>5. QED BY <2>1, <2>2, <2>3, <2>4, PayloadAssumption DEF GuardsLook, AllCandidates
<1>2. Begins(PizzaConfig, PizzaAt)
  <2>1. NewPizzaSession \in PizzaAt["order_received"]
    <3>1. None # "delivered"
      BY PizzaAssumption
    <3>2. NewPizzaSession \in PizzaSessions
      BY DEF NewPizzaSession, PizzaSessions
    <3>3. /\ NewPizzaSession.driver_id = None /\ NewPizzaSession.delivery_result = None
          /\ NewPizzaSession.charges = 0
      BY DEF NewPizzaSession
    <3>4. PizzaAt["order_received"] = Unpaid
      BY DEF PizzaAt
    <3>5. QED BY <3>1, <3>2, <3>3, <3>4 DEF Unpaid, Waiting
  <2>2. QED BY <2>1, PizzaCandidates, PizzaAlways, PizzaAssumption DEF Begins, Starts
<1>3. ErrorOutlined(PizzaConfig, PizzaAt, PizzaInto, PizzaLost)
  <2>1. ASSUME NEW q \in DOMAIN PizzaConfig
        PROVE  /\ PizzaLost[q] \subseteq PizzaAt[q]
               /\ PizzaConfig[q].error_state # None => PizzaLost[q] = {}
    <3>1. CASE q \in {"order_received", "payment_failed", "ready", "delivery_failed"}
      <4>1. PizzaConfig[q].error_state = None
        BY <3>1 DEF PizzaConfig, State
      <4>2. PizzaLost[q] = PizzaAt[q]
        BY <3>1 DEF PizzaLost, PizzaAt
      <4>3. QED BY <4>1, <4>2
    <3>2. CASE q \notin {"order_received", "payment_failed", "ready", "delivery_failed"}
      <4>1. PizzaLost[q] = {}
        BY <3>2 DEF PizzaLost
      <4>2. QED BY <4>1
    <3>3. QED BY <3>1, <3>2
  <2>2. \A q \in DOMAIN PizzaConfig :
          PizzaConfig[q].error_state \in {None, "payment_failed", "delivery_failed"}
    BY DEF PizzaConfig, State, Leaf
  <2>3. \A q \in {"payment_failed", "delivery_failed"} :
          q \in DOMAIN PizzaConfig /\ PizzaBack(q) = {}
    BY PizzaCandidates DEF PizzaBack
  <2>4. \A q \in {"payment_failed", "delivery_failed"}, d \in Data : \A back :
          Leads(PizzaConfig[q].entry, PizzaInto[q], PizzaAt[q], back, d)
    BY <2>3, PizzaEntries
  <2>5. QED BY <2>1, <2>2, <2>3, <2>4 DEF ErrorOutlined
<1>4. QED BY <1>1, <1>2, <1>3, PizzaOnOutlined, PizzaAlwaysOutlined DEF Outlined
-----------------------------------------------------------------------------
(***************************************************************************)
(* What the outlines tell of the examples.                                 *)
(***************************************************************************)

(* The three conversations follow their outlines. *)
BankFollowed == config = BankConfig => Follows(BankAt, BankInto, BankAt, BankLevel)

PizzaFollowed == config = PizzaConfig => Follows(PizzaAt, PizzaInto, PizzaLost, PizzaLevel)

BreadFollowed == config = BreadConfig => Follows(BreadAt, BreadInto, BreadLost, BreadLevel)

LEMMA BankFollows ==
  ASSUME AccessorsRead
  PROVE  ConversationSpec => []BankFollowed
<1>1. /\ ConversationInit => BankFollowed
      /\ CallOK /\ InTalk /\ BankFollowed /\ [ConversationNext]_<<vars, state_name>>
         => BankFollowed'
  BY BankOutlined, OutlineKept DEF BankFollowed
<1>2. QED BY <1>1, CallsInARow, PTL DEF ConversationSpec

LEMMA PizzaFollows ==
  ASSUME AccessorsRead
  PROVE  ConversationSpec => []PizzaFollowed
<1>1. /\ ConversationInit => PizzaFollowed
      /\ CallOK /\ InTalk /\ PizzaFollowed /\ [ConversationNext]_<<vars, state_name>>
         => PizzaFollowed'
  BY PizzaOutlined, OutlineKept DEF PizzaFollowed
<1>2. QED BY <1>1, CallsInARow, PTL DEF ConversationSpec

LEMMA BreadFollows ==
  ASSUME AccessorsRead
  PROVE  ConversationSpec => []BreadFollowed
<1>1. /\ ConversationInit => BreadFollowed
      /\ CallOK /\ InTalk /\ BreadFollowed /\ [ConversationNext]_<<vars, state_name>>
         => BreadFollowed'
  BY BreadOutlined, OutlineKept DEF BreadFollowed
<1>2. QED BY <1>1, CallsInARow, PTL DEF ConversationSpec

(* Sessions of bank.py have posted at most once, and only what was allowed. *)
LEMMA BankSessionTold ==
  ASSUME NEW q \in DOMAIN BankConfig, NEW s \in BankAt[q] \cup BankInto[q]
  PROVE  s \in Unposted \cup Posted
BY BankCandidates DEF BankAt, BankInto, Resolved, Complete

LEMMA OrderTold ==
  ASSUME NEW q \in DOMAIN PizzaConfig, PizzaConfig[q].always = <<>>, NEW s \in PizzaAt[q]
  PROVE  /\ q \in {"baking"} \cup Delivery => s.payment_result = "approved" /\ s.prep_status = "done"
         /\ q \in Delivery => s.quality_score >= QUALITY_PASS_THRESHOLD
         /\ q \in {"out_for_delivery", "delivered"} => s.driver_id # None
         /\ (q = "delivered") <=> (s.delivery_result = "delivered")
         /\ q = "cancelled" => s.driver_id = None
<1>1. CASE q \in {"order_received", "payment_processing", "payment_failed", "preparing",
                  "quality_check", "remaking"}
  <2>1. q \notin {"baking", "delivered", "cancelled"} /\ q \notin Delivery
    BY <1>1 DEF Delivery
  <2>2. PizzaAt[q] \subseteq Waiting
    BY <1>1 DEF PizzaAt, Unpaid, Replied, Made, Checked, Cooking
  <2>3. s.delivery_result # "delivered"
    BY <2>2 DEF Waiting
  <2>4. QED BY <1>1, <2>1, <2>3
<1>2. CASE q = "baking"
  <2>1. s \in Made /\ q \notin Delivery
    BY <1>2 DEF PizzaAt, Delivery
  <2>2. /\ s.payment_result = "approved" /\ s.prep_status = "done"
        /\ s.delivery_result # "delivered"
    BY <2>1 DEF Made, Cooking, Paid, Waiting
  <2>3. QED BY <1>2, <2>1, <2>2
<1>3. CASE q = "cancelled"
  <2>1. s \in Waiting /\ q \notin Delivery
    BY <1>3 DEF PizzaAt, Cancellable, Delivery
  <2>2. s.driver_id = None /\ s.delivery_result # "delivered"
    BY <2>1 DEF Waiting
  <2>3. QED BY <1>3, <2>1, <2>2
<1>4. CASE q \in {"ready", "delivery_failed"}
  <2>1. s \in Passed /\ s \in Waiting
    BY <1>4 DEF PizzaAt, ReadyToGo
  <2>2. /\ s.payment_result = "approved" /\ s.prep_status = "done"
        /\ s.quality_score >= QUALITY_PASS_THRESHOLD /\ s.delivery_result # "delivered"
    BY <2>1 DEF Passed, Paid, Waiting
  <2>3. q \notin {"out_for_delivery", "delivered", "cancelled"}
    BY <1>4
  <2>4. QED BY <2>2, <2>3
<1>5. CASE q \in {"assigning_driver", "out_for_delivery"}
  <2>1. s \in OnTheWay
    BY <1>5 DEF PizzaAt
  <2>2. /\ s.payment_result = "approved" /\ s.prep_status = "done"
        /\ s.quality_score >= QUALITY_PASS_THRESHOLD /\ s.delivery_result # "delivered"
        /\ s.driver_id # None
    BY <2>1 DEF OnTheWay, Passed, Paid
  <2>3. q \notin {"delivered", "cancelled"}
    BY <1>5
  <2>4. QED BY <2>2, <2>3
<1>6. CASE q = "delivered"
  <2>1. s \in Delivered
    BY <1>6 DEF PizzaAt
  <2>2. /\ s.payment_result = "approved" /\ s.prep_status = "done"
        /\ s.quality_score >= QUALITY_PASS_THRESHOLD /\ s.delivery_result = "delivered"
        /\ s.driver_id # None
    BY <2>1 DEF Delivered, Passed, Paid
  <2>3. QED BY <1>6, <2>2
<1>7. QED BY <1>1, <1>2, <1>3, <1>4, <1>5, <1>6, PizzaCandidates

(* No order is charged twice, wherever it is. *)
LEMMA OrderChargedOnce ==
  ASSUME NEW q \in DOMAIN PizzaConfig, NEW s \in PizzaAt[q] \cup PizzaInto[q]
  PROVE  s \in PizzaSessions /\ s.charges \in {0, 1}
<1>1. \/ s \in Unpaid \/ s \in Replied \/ s \in Paid \/ s \in Cancellable
  <2>1. /\ Made \subseteq Paid /\ Checked \subseteq Paid /\ Cooking \subseteq Paid
        /\ ReadyToGo \subseteq Paid /\ OnTheWay \subseteq Paid /\ Delivered \subseteq Paid
    BY DEF Made, Checked, Cooking, ReadyToGo, OnTheWay, Delivered, Passed
  <2>2. QED BY <2>1, PizzaCandidates DEF PizzaAt, PizzaInto
<1>2. CASE s \in Unpaid
  BY <1>2 DEF Unpaid, Waiting
<1>3. CASE s \in Paid
  BY <1>3 DEF Paid
<1>4. CASE s \in Replied
  BY <1>3, <1>4 DEF Replied, Waiting
<1>5. CASE s \in Cancellable
  <2>1. s \in PizzaSessions /\ s.charges <= 1
    BY <1>5 DEF Cancellable, Waiting
  <2>2. s.charges \in 0 .. 2
    BY <2>1 DEF PizzaSessions
  <2>3. QED BY <2>1, <2>2
<1>6. QED BY <1>1, <1>2, <1>3, <1>4, <1>5

LEMMA CakePlatedOnce ==
  ASSUME NEW q \in DOMAIN BreadConfig, NEW s \in BreadAt[q] \cup BreadInto[q]
  PROVE  s \in BakingSessions /\ s.plated \in {0, 1}
<1>1. s \in Unplated \/ s \in Plated
  BY BreadCandidates DEF BreadAt, BreadInto, Cooled
<1>2. QED BY <1>1 DEF Unplated, Plated

(* No session is one of two examples. *)
LEMMA SessionsApart ==
  /\ BankSessions \cap PizzaSessions = {} /\ BankSessions \cap BakingSessions = {}
  /\ PizzaSessions \cap BakingSessions = {}
<1>1. \A s \in BankSessions : "receipts" \in DOMAIN s /\ "charges" \notin DOMAIN s
                              /\ "plated" \notin DOMAIN s
  BY DEF BankSessions
<1>2. \A s \in PizzaSessions : "charges" \in DOMAIN s /\ "plated" \notin DOMAIN s
  BY DEF PizzaSessions
<1>3. \A s \in BakingSessions : "plated" \in DOMAIN s
  BY DEF BakingSessions
<1>4. QED BY <1>1, <1>2, <1>3

(***************************************************************************)
(* examples/bank.py: what was posted had every field, was within the limit *)
(* and did not go to a frozen account - after any signals with any data,   *)
(* in any order, whichever calls failed or were cancelled.                 *)
(***************************************************************************)
THEOREM TransfersPostedWereAllowed ==
  ASSUME AccessorsRead
  PROVE  ConversationSpec => []PostedWasAllowed
<1>1. ConversationSpec => []BankFollowed
  BY BankFollows
<1>2. CallOK /\ BankFollowed => PostedWasAllowed
  <2> SUFFICES ASSUME CallOK, config = BankConfig, Follows(BankAt, BankInto, BankAt, BankLevel),
                      session.receipts > 0
               PROVE  /\ \A field \in REQUIRED_FIELDS : session[field] # None
                      /\ ~exceeds_daily_limit(session, "")
                      /\ session.to_account \notin FROZEN_ACCOUNTS
    BY DEF PostedWasAllowed, BankFollowed
  <2>1. Under(BankAt, BankInto, BankAt, BankLevel)
    BY BankOutlined DEF Under
  <2>2. session \in Unposted \cup Posted
    BY <2>1, SessionOutlined, BankSessionTold
  <2>3. session \notin Unposted
    BY DEF Unposted
  <2>4. session \in Posted
    BY <2>2, <2>3
  <2>5. /\ \A field \in REQUIRED_FIELDS : session[field] # None
        /\ session.amount # "large" /\ session.to_account \notin FROZEN_ACCOUNTS
    BY <2>4 DEF Posted
  <2>6. QED BY <2>5 DEF exceeds_daily_limit
<1>3. QED BY <1>1, <1>2, CallsInARow, PTL

(***************************************************************************)
(* examples/pizza.py: the state name that the caller keeps tells what was  *)
(* done to the order, though calls may have been cancelled on the way.     *)
(***************************************************************************)
THEOREM StateNameTellsTheOrder ==
  ASSUME AccessorsRead
  PROVE  ConversationSpec => []StateTellsTheOrder
<1>1. ConversationSpec => []PizzaFollowed
  BY PizzaFollows
<1>2. CallOK /\ PizzaFollowed => StateTellsTheOrder
  <2> SUFFICES ASSUME CallOK, config = PizzaConfig,
                      Follows(PizzaAt, PizzaInto, PizzaLost, PizzaLevel), Terminated
               PROVE  /\ Kept \in {"baking"} \cup Delivery =>
                           session.payment_result = "approved" /\ session.prep_status = "done"
                      /\ Kept \in Delivery => session.quality_score >= QUALITY_PASS_THRESHOLD
                      /\ Kept \in {"out_for_delivery", "delivered"} => session.driver_id # None
                      /\ (Kept = "delivered") <=> (session.delivery_result = "delivered")
                      /\ Kept = "cancelled" => session.driver_id = None
    BY DEF StateTellsTheOrder, PizzaFollowed
  <2>1. Kept \in DOMAIN PizzaConfig /\ PizzaConfig[Kept].always = <<>> /\ session \in PizzaAt[Kept]
    <3>1. CASE pc = "returned"
      BY <3>1 DEF Kept, Follows, SignalOK, RestOK, Allowed
    <3>2. CASE pc = "raised"
      <4>1. Kept = state_name
        BY <3>2 DEF Kept
      <4>2. PizzaLost[Kept] \subseteq PizzaAt[Kept]
        BY <4>1, PizzaOutlined DEF Outlined, ErrorOutlined, Follows, SignalOK
      <4>3. QED BY <3>2, <4>1, <4>2 DEF Follows, SignalOK, RestOK, Allowed
    <3>3. QED BY <3>1, <3>2 DEF Terminated
  <2>2. QED BY <2>1, OrderTold
<1>3. QED BY <1>1, <1>2, CallsInARow, PTL

(***************************************************************************)
(* All three: a receipt, a charge and a cake are never given twice, though *)
(* a call that failed or was cancelled is repeated by the caller.          *)
(***************************************************************************)
THEOREM NothingDoneTwice ==
  ASSUME AccessorsRead
  PROVE  ConversationSpec => []NothingTwice
<1>1. ConversationSpec => []BankFollowed
  BY BankFollows
<1>2. ConversationSpec => []PizzaFollowed
  BY PizzaFollows
<1>3. ConversationSpec => []BreadFollowed
  BY BreadFollows
<1>4. ASSUME CallOK, config = BankConfig, Follows(BankAt, BankInto, BankAt, BankLevel)
      PROVE  NothingTwice
  <2>1. Under(BankAt, BankInto, BankAt, BankLevel)
    BY <1>4, BankOutlined DEF Under
  <2>2. session \in Unposted \cup Posted
    BY <1>4, <2>1, SessionOutlined, BankSessionTold
  <2>3. session \in BankSessions /\ session.receipts \in {0, 1}
    BY <2>2 DEF Unposted, Posted
  <2>4. session \notin PizzaSessions /\ session \notin BakingSessions
    BY <2>3, SessionsApart
  <2>5. session.receipts <= 1
    BY <2>3
  <2>6. QED BY <2>4, <2>5 DEF NothingTwice
<1>5. ASSUME CallOK, config = PizzaConfig, Follows(PizzaAt, PizzaInto, PizzaLost, PizzaLevel)
      PROVE  NothingTwice
  <2>1. Under(PizzaAt, PizzaInto, PizzaLost, PizzaLevel)
    BY <1>5, PizzaOutlined DEF Under
  <2>2. session \in PizzaSessions /\ session.charges \in {0, 1}
    BY <1>5, <2>1, SessionOutlined, OrderChargedOnce
  <2>3. session \notin BankSessions /\ session \notin BakingSessions
    BY <2>2, SessionsApart
  <2>4. session.charges <= 1
    BY <2>2
  <2>5. QED BY <2>3, <2>4 DEF NothingTwice
<1>6. ASSUME CallOK, config = BreadConfig, Follows(BreadAt, BreadInto, BreadLost, BreadLevel)
      PROVE  NothingTwice
  <2>1. Under(BreadAt, BreadInto, BreadLost, BreadLevel)
    BY <1>6, BreadOutlined DEF Under
  <2>2. session \in BakingSessions /\ session.plated \in {0, 1}
    BY <1>6, <2>1, SessionOutlined, CakePlatedOnce
  <2>3. session \notin BankSessions /\ session \notin PizzaSessions
    BY <2>2, SessionsApart
  <2>4. session.plated <= 1
    BY <2>2
  <2>5. QED BY <2>3, <2>4 DEF NothingTwice
<1>7. InTalk => config \in {BankConfig, PizzaConfig, BreadConfig}
  BY ExamplesAssumption DEF InTalk
<1>8. CallOK /\ InTalk /\ BankFollowed /\ PizzaFollowed /\ BreadFollowed => NothingTwice
  BY <1>4, <1>5, <1>6, <1>7 DEF BankFollowed, PizzaFollowed, BreadFollowed
<1>9. QED BY <1>1, <1>2, <1>3, <1>8, CallsInARow, PTL
=============================================================================
