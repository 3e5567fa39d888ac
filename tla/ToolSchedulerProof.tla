-------------------------- MODULE ToolSchedulerProof --------------------------
(***************************************************************************)
(* Proofs about ToolScheduler, for any conversations, calls, tools and      *)
(* providers: the scheduling rule holds through every nesting of handlers,  *)
(* a session switch leaves no call of the old session behind, calls start   *)
(* in their order and as soon as they may, and a turn goes on with the      *)
(* results of all its calls, each answered once.                           *)
(***************************************************************************)
EXTENDS ToolScheduler, FiniteSetTheorems, SequenceTheorems, TLAPS

(* A call id that was never used is nowhere. *)
FreshIsUnused ==
    /\ \A d \in fresh : in_flight_tool_kinds[d] = "none"
    /\ \A k \in DOMAIN pending_tool_invocations : pending_tool_invocations[k].call \notin fresh

IInv == TypeOK /\ FreshIsUnused /\ MutatingRunsAlone /\ OldCallsAreForgotten

-----------------------------------------------------------------------------
(* The stack of a handler. *)
LEMMA StepTypes ==
    /\ Do("drain", None) \in Step
    /\ \A d \in Calls : Completion(d) \in Seq(Step) /\ Do("fail", d) \in Step
    /\ \A c \in Conns : [op |-> "gone", call |-> None, conn |-> c] \in Step
<1>1. Do("drain", None) \in Step
  BY DEF Do, Step
<1>2. ASSUME NEW d \in Calls
      PROVE  Completion(d) \in Seq(Step) /\ Do("fail", d) \in Step
  <2>1. /\ Do("done", d) \in Step /\ Do("turn", d) \in Step /\ Do("clear", d) \in Step
        /\ Do("fail", d) \in Step
    BY DEF Do, Step
  <2> HIDE DEF Step, Do
  <2> QED
    BY <1>1, <2>1 DEF Completion
<1>3. ASSUME NEW c \in Conns
      PROVE  [op |-> "gone", call |-> None, conn |-> c] \in Step
  BY DEF Step
<1> QED
  BY <1>1, <1>2, <1>3

LEMMA TopOfStack ==
    ASSUME TypeOK, NEW op, NextIs(op)
    PROVE  /\ Head(work) \in Step
           /\ Head(work).op = op
           /\ Tail(work) \in Seq(Step)
           /\ op \in {"done", "turn", "clear", "fail"} => Head(work).call \in Calls
           /\ op = "gone" => Head(work).conn \in Conns
<1>1. work \in Seq(Step) /\ work # <<>> /\ Head(work).op = op
  BY DEF TypeOK, NextIs
<1>2. Head(work) \in Step /\ Tail(work) \in Seq(Step)
  <2> HIDE DEF Step
  <2> QED
    BY <1>1
<1>3. \A s \in Step : /\ s.op \in {"done", "turn", "clear", "fail"} => s.call \in Calls
                      /\ s.op = "gone" => s.conn \in Conns
  BY DEF Step
<1> QED
  BY <1>1, <1>2, <1>3

LEMMA RemoveOne ==
    ASSUME NEW S, NEW s \in Seq(S), NEW i \in DOMAIN s
    PROVE  /\ RemoveAt(s, i) \in Seq(S)
           /\ \A k \in DOMAIN RemoveAt(s, i) : \E j \in DOMAIN s : RemoveAt(s, i)[k] = s[j]
<1> DEFINE a == SubSeq(s, 1, i - 1)
           b == SubSeq(s, i + 1, Len(s))
<1>1. i \in 1..Len(s) /\ Len(s) \in Nat
  OBVIOUS
<1>2. /\ a \in Seq(S) /\ Len(a) = i - 1
      /\ \A k \in 1..(i - 1) : a[k] = s[k]
  BY <1>1
<1>3. /\ b \in Seq(S) /\ Len(b) = Len(s) - i
      /\ \A k \in 1..(Len(s) - i) : b[k] = s[i + k]
  BY <1>1
<1>4. RemoveAt(s, i) = a \o b
  BY DEF RemoveAt
<1> HIDE DEF a, b
<1>5. /\ a \o b \in Seq(S) /\ Len(a \o b) = Len(a) + Len(b)
      /\ \A k \in 1..(Len(a) + Len(b)) : (a \o b)[k] = IF k <= Len(a) THEN a[k] ELSE b[k - Len(a)]
  BY <1>2, <1>3, ConcatProperties
<1>6. DOMAIN (a \o b) = 1..(Len(s) - 1)
  BY <1>1, <1>2, <1>3, <1>5
<1>7. ASSUME NEW k \in 1..(Len(s) - 1)
      PROVE  \E j \in DOMAIN s : (a \o b)[k] = s[j]
  <2>1. k \in 1..(Len(a) + Len(b))
    BY <1>1, <1>2, <1>3
  <2>2. CASE k <= i - 1
    <3>1. k \in 1..(i - 1) /\ k \in DOMAIN s /\ k <= Len(a)
      BY <1>1, <1>2, <2>2
    <3> QED
      BY <1>2, <1>5, <2>1, <3>1
  <2>3. CASE ~(k <= i - 1)
    <3>1. k - (i - 1) \in 1..(Len(s) - i) /\ ~(k <= Len(a)) /\ Len(a) = i - 1
      BY <1>1, <1>2, <2>3
    <3>2. (a \o b)[k] = b[k - (i - 1)]
      BY <1>5, <2>1, <3>1
    <3>3. b[k - (i - 1)] = s[i + (k - (i - 1))]
      BY <1>3, <3>1
    <3>4. i + (k - (i - 1)) = k + 1 /\ k + 1 \in DOMAIN s
      BY <1>1, <2>3
    <3> QED
      BY <3>2, <3>3, <3>4
  <2> QED
    BY <2>2, <2>3
<1> QED
  BY <1>4, <1>5, <1>6, <1>7

LEMMA UnregisterType ==
    ASSUME NEW S, NEW s \in Seq(S), NEW e
    PROVE  Without(s, e) \in Seq(S)
<1>1. CASE \E j \in DOMAIN s : s[j] = e
  <2>1. (CHOOSE j \in DOMAIN s : s[j] = e) \in DOMAIN s
    BY <1>1
  <2> QED
    BY <1>1, <2>1, RemoveOne DEF Without
<1>2. CASE ~ \E j \in DOMAIN s : s[j] = e
  BY <1>2 DEF Without
<1> QED
  BY <1>1, <1>2

-----------------------------------------------------------------------------
(* Every step keeps the types: one lemma per kind of step. *)
LEMMA StartTypes ==
    ASSUME TypeOK, NextIs("drain"), NEW k \in DOMAIN pending_tool_invocations, Start(k)
    PROVE  TypeOK'
<1> DEFINE x == pending_tool_invocations[k]
           t == ToolOf[x.call]
<1>1. x \in Entry /\ x.call \in Calls /\ x.conv \in Convs /\ x.kind \in {"pure", "mutating"}
  <2>1. x \in Entry
    <3> HIDE DEF Entry
    <3> QED
      BY DEF TypeOK
  <2> QED
    BY <2>1 DEF Entry
<1>2. t \in Tools
  BY <1>1, ToolSchedulerAssumption
<1>3. pending_tool_invocations' \in Seq(Entry)
  BY RemoveOne DEF TypeOK, Start
<1>4. /\ in_flight_tool_kinds' \in [Calls -> {"none", "pure", "mutating"}]
      /\ tool_conversations' \in [Calls -> Convs \cup {None}]
      /\ started' \in Seq(Calls)
  BY <1>1 DEF TypeOK, Start
<1>5. CASE t \notin Inline /\ HasProvider(t)
  <2>1. Head(providers_by_tool[t]) \in Conns
    BY <1>2, <1>5 DEF TypeOK, HasProvider
  <2>2. /\ pending_tool_providers' =
               [pending_tool_providers EXCEPT ![x.call] = Head(providers_by_tool[t])]
        /\ sent' = [sent EXCEPT ![x.call] = Head(providers_by_tool[t])]
        /\ work' = work /\ answers' = answers
    BY <1>5 DEF Start
  <2>3. /\ pending_tool_providers' \in [Calls -> Conns \cup {None}]
        /\ sent' \in [Calls -> Conns \cup {None}]
        /\ work' \in Seq(Step) /\ answers' \in [Calls -> Nat]
    BY <2>1, <2>2 DEF TypeOK
  <2> QED
    BY <1>3, <1>4, <2>3 DEF TypeOK, Start, turns, providers
<1>6. CASE ~(t \notin Inline /\ HasProvider(t))
  <2>1. /\ answers' = [answers EXCEPT ![x.call] = @ + 1]
        /\ work' = Completion(x.call) \o work
        /\ pending_tool_providers' = pending_tool_providers /\ sent' = sent
    BY <1>6 DEF Start
  <2>2. work' \in Seq(Step)
    <3> HIDE DEF Step
    <3> QED
      BY <1>1, <2>1, StepTypes DEF TypeOK
  <2>3. answers' \in [Calls -> Nat]
    BY <1>1, <2>1 DEF TypeOK
  <2> QED
    BY <1>3, <1>4, <2>1, <2>2, <2>3 DEF TypeOK, Start, turns, providers
<1> QED
  BY <1>5, <1>6

(* A completed turn takes calls from one conversation.                        *)
LEMMA CompletedTurn ==
    ASSUME TypeOK, CompleteTurn
    PROVE  /\ remaining_calls' \in [Convs -> SUBSET Calls]
           /\ turn_state' \in [Convs -> {"none", "idle", "thinking", "tools"}]
           /\ \A r \in Convs : remaining_calls'[r] \subseteq remaining_calls[r]
<1> DEFINE d == Head(work).call
           q == tool_conversations[d]
<1>1. /\ remaining_calls \in [Convs -> SUBSET Calls]
      /\ turn_state \in [Convs -> {"none", "idle", "thinking", "tools"}]
  BY DEF TypeOK
<1>2. CASE UNCHANGED <<turn_state, remaining_calls>>
  BY <1>1, <1>2
<1>3. CASE ~ UNCHANGED <<turn_state, remaining_calls>>
  <2>1. /\ remaining_calls' = [remaining_calls EXCEPT ![q] = @ \ {d}]
        /\ \E t \in {"thinking", turn_state[q]} : turn_state' = [turn_state EXCEPT ![q] = t]
    BY <1>3 DEF CompleteTurn
  <2>2. PICK t \in {"thinking", turn_state[q]} : turn_state' = [turn_state EXCEPT ![q] = t]
    BY <2>1
  <2> HIDE DEF d, q
  <2>3. remaining_calls' \in [Convs -> SUBSET Calls]
    BY <1>1, <2>1
  <2>4. turn_state' \in [Convs -> {"none", "idle", "thinking", "tools"}]
    BY <1>1, <2>2
  <2>5. \A r \in Convs : remaining_calls'[r] \subseteq remaining_calls[r]
    BY <1>1, <2>1
  <2> QED
    BY <2>3, <2>4, <2>5
<1> QED
  BY <1>2, <1>3

LEMMA HandlerTypes ==
    ASSUME TypeOK, Handler
    PROVE  TypeOK'
<1>1. CASE Drain
  <2>1. PICK k \in Startable : Start(k)
    BY <1>1 DEF Drain
  <2> QED
    BY <1>1, <2>1, StartTypes DEF Drain, Startable
<1>2. CASE DrainEnd
  <2>1. work' \in Seq(Step)
    BY <1>2, TopOfStack DEF DrainEnd
  <2> QED
    BY <1>2, <2>1 DEF DrainEnd, TypeOK, turns, tracking, providers, outside, history
<1>3. CASE Done
  <2>1. Head(work).call \in Calls /\ work' \in Seq(Step)
    BY <1>3, TopOfStack DEF Done
  <2> QED
    BY <1>3, <2>1 DEF Done, TypeOK, turns, providers, outside, history
<1>4. CASE CompleteTurn
  <2>1. work' \in Seq(Step)
    BY <1>4, TopOfStack DEF CompleteTurn
  <2>2. /\ remaining_calls' \in [Convs -> SUBSET Calls]
        /\ turn_state' \in [Convs -> {"none", "idle", "thinking", "tools"}]
    BY <1>4, CompletedTurn DEF TypeOK
  <2>3. UNCHANGED <<parent, pending_tool_invocations, tracking, providers, outside, history>>
    BY <1>4 DEF CompleteTurn
  <2> QED
    BY <2>1, <2>2, <2>3 DEF TypeOK, tracking, providers, outside, history
<1>5. CASE ClearTracking
  <2>1. Head(work).call \in Calls /\ work' \in Seq(Step)
    BY <1>5, TopOfStack DEF ClearTracking
  <2> QED
    BY <1>5, <2>1 DEF ClearTracking, TypeOK, turns, providers, outside, history
<1>6. CASE FailCall
  <2>1. Head(work).call \in Calls /\ Tail(work) \in Seq(Step)
    BY <1>6, TopOfStack DEF FailCall
  <2>2. work' \in Seq(Step)
    <3> HIDE DEF Step
    <3> QED
      BY <1>6, <2>1, StepTypes DEF FailCall
  <2>3. answers' \in [Calls -> Nat]
    BY <1>6, <2>1 DEF FailCall, TypeOK
  <2> QED
    BY <1>6, <2>2, <2>3 DEF FailCall, TypeOK, turns, tracking, providers, outside
<1>7. CASE Gone
  <2>1. work' \in Seq(Step)
    BY <1>7, TopOfStack DEF Gone
  <2>2. \A t \in Tools : Without(providers_by_tool[t], Head(work).conn) \in Seq(Conns)
    BY UnregisterType DEF TypeOK
  <2>3. providers_by_tool' \in [Tools -> Seq(Conns)] /\ connected' \subseteq Conns
    BY <1>7, <2>2 DEF Gone, TypeOK
  <2> QED
    BY <1>7, <2>1, <2>3 DEF Gone, TypeOK, turns, tracking, outside, history
<1> QED
  BY <1>1, <1>2, <1>3, <1>4, <1>5, <1>6, <1>7 DEF Handler

(* A response's calls are distinct and fresh. *)
LEMMA ResponseTypes ==
    ASSUME TypeOK, NEW s \in Responses
    PROVE  /\ s \in Seq(Calls)
           /\ ToSet(s) \subseteq fresh
           /\ \A k \in DOMAIN s : s[k] \in fresh
           /\ \A j, k \in DOMAIN s : s[j] = s[k] => j = k
<1>1. PICK n \in 1..MaxCalls : s \in [1..n -> fresh] /\ \A j, k \in 1..n : s[j] = s[k] => j = k
  BY DEF Responses
<1>2. n \in Nat
  BY ToolSchedulerAssumption
<1>3. s \in [1..n -> Calls]
  BY <1>1 DEF TypeOK
<1> QED
  BY <1>1, <1>2, <1>3 DEF ToSet

LEMMA KindTypes ==
    ASSUME NEW d \in Calls
    PROVE  KindOf(d) \in {"pure", "mutating"}
BY ToolSchedulerAssumption DEF KindOf

LEMMA RespondTypes ==
    ASSUME TypeOK, NEW q \in Convs, NEW s \in Responses, RespondWithCalls(q, s)
    PROVE  TypeOK'
<1> DEFINE added == [k \in DOMAIN s |-> [conv |-> q, call |-> s[k], kind |-> KindOf(s[k])]]
           named == [k \in DOMAIN s |-> [conv |-> q, call |-> s[k]]]
<1>1. s \in Seq(Calls) /\ ToSet(s) \subseteq Calls
  BY ResponseTypes DEF TypeOK
<1>2. added \in Seq(Entry)
  <2>1. \A k \in DOMAIN s : added[k] \in Entry
    BY <1>1, KindTypes DEF Entry
  <2> HIDE DEF Entry
  <2> QED
    BY <1>1, <2>1
<1>3. pending_tool_invocations' \in Seq(Entry)
  <2> HIDE DEF Entry, added
  <2>1. pending_tool_invocations' = pending_tool_invocations \o added
    BY DEF RespondWithCalls, added
  <2> QED
    BY <1>2, <2>1 DEF TypeOK
<1>4. emitted' \in Seq([conv : Convs, call : Calls])
  <2>1. \A k \in DOMAIN s : named[k] \in [conv : Convs, call : Calls]
    BY <1>1
  <2>2. DOMAIN named = DOMAIN s /\ DOMAIN s = 1..Len(s) /\ Len(s) \in Nat
    BY <1>1
  <2>3. \A C : (\A k \in DOMAIN s : named[k] \in C) => named \in Seq(C)
    BY <2>2
  <2>4. named \in Seq([conv : Convs, call : Calls])
    BY <2>1, <2>3
  <2> HIDE DEF named
  <2>5. emitted' = emitted \o named
    BY DEF RespondWithCalls, named
  <2> QED
    BY <2>4, <2>5 DEF TypeOK
<1>5. /\ turn_state' \in [Convs -> {"none", "idle", "thinking", "tools"}]
      /\ remaining_calls' \in [Convs -> SUBSET Calls]
      /\ fresh' \subseteq Calls
  BY <1>1 DEF RespondWithCalls, TypeOK
<1>6. work' \in Seq(Step)
  BY StepTypes DEF RespondWithCalls
<1> QED
  BY <1>3, <1>4, <1>5, <1>6 DEF RespondWithCalls, TypeOK, tracking, providers

LEMMA DisconnectTypes ==
    ASSUME TypeOK, NEW c \in Conns, Disconnect(c)
    PROVE  TypeOK'
<1> DEFINE D == {d \in Calls : pending_tool_providers[d] = c}
<1>1. PICK s \in SetToSeqs(D) :
          work' = [k \in DOMAIN s |-> Do("fail", s[k])] \o
                  <<[op |-> "gone", call |-> None, conn |-> c]>>
  BY DEF Disconnect
<1>2. Cardinality(D) \in Nat
  BY FS_Subset, FS_CardinalityType, ToolSchedulerAssumption
<1>3. s \in [1..Cardinality(D) -> D]
  BY DEF SetToSeqs
<1>4. \A k \in 1..Cardinality(D) : Do("fail", s[k]) \in Step
  BY <1>3, StepTypes
<1>5. [k \in DOMAIN s |-> Do("fail", s[k])] \in Seq(Step)
  <2> HIDE DEF Step, D
  <2> QED
    BY <1>2, <1>3, <1>4
<1>6. work' \in Seq(Step)
  <2> HIDE DEF Step, D
  <2> QED
    BY <1>1, <1>5, StepTypes
<1> QED
  BY <1>6 DEF Disconnect, TypeOK, turns, tracking, providers, outside, history

(* What a cancellation leaves in the queue was in it, and of another         *)
(* conversation.                                                           *)
LEMMA CancelQueue ==
    ASSUME TypeOK, CancelPrompt
    PROVE  /\ pending_tool_invocations' \in Seq(Entry)
           /\ \A k \in DOMAIN pending_tool_invocations' :
                 \E j \in DOMAIN pending_tool_invocations :
                    /\ pending_tool_invocations'[k] = pending_tool_invocations[j]
                    /\ pending_tool_invocations[j].conv # Default
<1> DEFINE S == {k \in DOMAIN pending_tool_invocations :
                    pending_tool_invocations[k].conv # Default}
<1>1. PICK f \in [1..Cardinality(S) -> S] :
          pending_tool_invocations' = [k \in DOMAIN f |-> pending_tool_invocations[f[k]]]
  BY DEF CancelPrompt, Increasing
<1>2. Cardinality(S) \in Nat
  <2>1. pending_tool_invocations \in Seq(Entry)
    BY DEF TypeOK
  <2>2. Len(pending_tool_invocations) \in Nat /\ S \subseteq 1..Len(pending_tool_invocations)
    BY <2>1
  <2> HIDE DEF S
  <2>3. IsFiniteSet(1..Len(pending_tool_invocations))
    BY <2>2, FS_Interval
  <2> QED
    BY <2>2, <2>3, FS_Subset, FS_CardinalityType
<1>3. \A k \in DOMAIN f : pending_tool_invocations[f[k]] \in Entry
  <2>1. \A k \in DOMAIN f : f[k] \in DOMAIN pending_tool_invocations
    BY <1>1
  <2> HIDE DEF Entry, S
  <2> QED
    BY <2>1 DEF TypeOK
<1>4. pending_tool_invocations' \in Seq(Entry)
  <2> HIDE DEF Entry, S
  <2> QED
    BY <1>1, <1>2, <1>3
<1> QED
  BY <1>1, <1>4

LEMMA SmallFrameTypes ==
    ASSUME TypeOK,
           \/ \E c \in Conns, t \in Tools : ToolRegister(c, t)
           \/ Prompt
           \/ \E q \in Convs : RespondWithText(q)
           \/ \E d \in Calls, q \in Convs : ExtAgentQuery(d, q)
           \/ \E d \in Calls : ToolResult(d) \/ DuplicateResult(d) \/ ToolRequest(d)
           \/ CancelPrompt
           \/ SwitchSession
    PROVE  TypeOK'
<1>1. ASSUME NEW c \in Conns, NEW t \in Tools, ToolRegister(c, t)
      PROVE  TypeOK'
  <2>1. providers_by_tool' \in [Tools -> Seq(Conns)]
    <3>1. Append(providers_by_tool[t], c) \in Seq(Conns) /\ providers_by_tool[t] \in Seq(Conns)
      BY DEF TypeOK
    <3> QED
      BY <1>1, <3>1 DEF ToolRegister, TypeOK
  <2> QED
    BY <1>1, <2>1 DEF ToolRegister, TypeOK, turns, tracking, outside, history
<1>2. CASE Prompt
  BY <1>2 DEF Prompt, TypeOK, tracking, providers, outside, history
<1>3. ASSUME NEW q \in Convs, RespondWithText(q)
      PROVE  TypeOK'
  BY <1>3 DEF RespondWithText, TypeOK, tracking, providers, history
<1>4. ASSUME NEW d \in Calls, NEW q \in Convs, ExtAgentQuery(d, q)
      PROVE  TypeOK'
  BY <1>4 DEF ExtAgentQuery, TypeOK, tracking, providers, history
<1>5. ASSUME NEW d \in Calls, ToolResult(d)
      PROVE  TypeOK'
  <2>1. work' \in Seq(Step)
    BY <1>5, StepTypes DEF ToolResult
  <2>2. answers' \in [Calls -> Nat]
    BY <1>5 DEF ToolResult, TypeOK
  <2> QED
    BY <1>5, <2>1, <2>2 DEF ToolResult, TypeOK, turns, tracking, providers, outside
<1>6. ASSUME NEW d \in Calls, DuplicateResult(d)
      PROVE  TypeOK'
  BY <1>6 DEF DuplicateResult, TypeOK, vars
<1>7. ASSUME NEW d \in Calls, ToolRequest(d)
      PROVE  TypeOK'
  <2> DEFINE c == Head(providers_by_tool[ToolOf[d]])
  <2>1. HasProvider(ToolOf[d]) => c \in Conns
    <3>1. providers_by_tool[ToolOf[d]] \in Seq(Conns)
      BY ToolSchedulerAssumption DEF TypeOK
    <3> QED
      BY <3>1 DEF HasProvider
  <2>2. /\ tool_conversations' \in [Calls -> Convs \cup {None}]
        /\ pending_tool_providers' \in [Calls -> Conns \cup {None}]
        /\ sent' \in [Calls -> Conns \cup {None}]
    <3>1. CASE HasProvider(ToolOf[d])
      <4> HIDE DEF c
      <4>1. /\ tool_conversations' = [tool_conversations EXCEPT ![d] = Default]
            /\ pending_tool_providers' = [pending_tool_providers EXCEPT ![d] = c]
            /\ sent' = [sent EXCEPT ![d] = c]
        BY <1>7, <3>1 DEF ToolRequest, c
      <4> QED
        BY <2>1, <3>1, <4>1, ToolSchedulerAssumption DEF TypeOK
    <3>2. CASE ~HasProvider(ToolOf[d])
      BY <1>7, <3>2 DEF ToolRequest, TypeOK
    <3> QED
      BY <3>1, <3>2
  <2>3. answers' \in [Calls -> Nat]
    <3>1. answers' = [answers EXCEPT ![d] = @ + 1] \/ answers' = answers
      BY <1>7 DEF ToolRequest
    <3>2. answers \in [Calls -> Nat]
      BY DEF TypeOK
    <3>3. [answers EXCEPT ![d] = @ + 1] \in [Calls -> Nat]
      BY <3>2
    <3> QED
      BY <3>1, <3>2, <3>3
  <2>4. fresh' \subseteq Calls /\ requested' \subseteq Calls
    BY <1>7 DEF ToolRequest, TypeOK
  <2> QED
    BY <1>7, <2>2, <2>3, <2>4 DEF ToolRequest, TypeOK, turns, providers
<1>8. CASE CancelPrompt
  <2>1. turn_state' \in [Convs -> {"none", "idle", "thinking", "tools"}]
    BY <1>8 DEF CancelPrompt, TypeOK
  <2>2. /\ tool_conversations' \in [Calls -> Convs \cup {None}]
        /\ pending_tool_providers' \in [Calls -> Conns \cup {None}]
    BY <1>8 DEF CancelPrompt, TypeOK
  <2> QED
    BY <1>8, <2>1, <2>2, CancelQueue DEF CancelPrompt, TypeOK, providers, outside, history
<1>9. CASE SwitchSession
  BY <1>9 DEF SwitchSession, TypeOK, providers, outside
<1> QED
  BY <1>1, <1>2, <1>3, <1>4, <1>5, <1>6, <1>7, <1>8, <1>9

LEMMA InitTypes == Init => TypeOK
BY ToolSchedulerAssumption DEF Init, TypeOK

LEMMA NextTypes == TypeOK /\ [Next]_vars => TypeOK'
<1> SUFFICES ASSUME TypeOK, [Next]_vars PROVE TypeOK'
  OBVIOUS
<1>1. CASE UNCHANGED vars
  BY <1>1 DEF TypeOK, vars
<1>2. CASE Next
  BY <1>2, HandlerTypes, RespondTypes, DisconnectTypes, SmallFrameTypes DEF Next
<1> QED
  BY <1>1, <1>2

(* Type correctness: every handler, through every nesting, leaves the        *)
(* harness's tables with the entries they are meant to hold.               *)
THEOREM TypeCorrect == Spec => []TypeOK
BY InitTypes, NextTypes, PTL DEF Spec

-----------------------------------------------------------------------------
(* The scheduling rule and the tracking *)

Current == requested \cup {emitted[k].call : k \in DOMAIN emitted}

(* A step that starts no call and queues none: the queue and the tracking     *)
(* only lose, the session only gains.                                      *)
Quiet ==
    /\ \A k \in DOMAIN pending_tool_invocations' :
          \E j \in DOMAIN pending_tool_invocations :
              pending_tool_invocations'[k] = pending_tool_invocations[j]
    /\ \A d \in Calls :
          /\ in_flight_tool_kinds'[d] \in {in_flight_tool_kinds[d], "none"}
          /\ tool_conversations'[d] \in {tool_conversations[d], None}
    /\ \A q \in Convs : remaining_calls'[q] \subseteq remaining_calls[q]
    /\ UNCHANGED <<fresh, requested, emitted>>

LEMMA QuietStep ==
    ASSUME IInv, Quiet
    PROVE  (FreshIsUnused /\ MutatingRunsAlone /\ OldCallsAreForgotten)'
<1>1. FreshIsUnused'
  BY DEF IInv, TypeOK, FreshIsUnused, Quiet
<1>2. \A q \in Convs : InFlightFor(q)' \subseteq InFlightFor(q)
  BY ToolSchedulerAssumption DEF InFlightFor, Quiet
<1>3. MutatingRunsAlone'
  <2> SUFFICES ASSUME NEW q \in Convs, NEW d \in InFlightFor(q)', NEW e \in InFlightFor(q)', d # e
               PROVE  in_flight_tool_kinds'[d] = "pure" /\ in_flight_tool_kinds'[e] = "pure"
    BY DEF MutatingRunsAlone
  <2>1. in_flight_tool_kinds[d] = "pure" /\ in_flight_tool_kinds[e] = "pure"
    BY <1>2 DEF IInv, MutatingRunsAlone
  <2>2. in_flight_tool_kinds'[d] # "none" /\ in_flight_tool_kinds'[e] # "none" /\ d \in Calls /\ e \in Calls
    BY DEF InFlightFor
  <2> QED
    BY <2>1, <2>2 DEF Quiet
<1>4. \A q \in Convs : Queued(q)' \subseteq Queued(q)
  BY DEF Queued, Quiet
<1>5. Current' = Current
  BY DEF Current, Quiet
<1>6. OldCallsAreForgotten'
  <2>1. \A d \in Calls : tool_conversations'[d] # None => d \in Current'
    BY <1>5 DEF Quiet, IInv, OldCallsAreForgotten, Current
  <2>2. \A q \in Convs : remaining_calls'[q] \cup Queued(q)' \subseteq Current'
    BY <1>4, <1>5 DEF Quiet, IInv, OldCallsAreForgotten, Current
  <2> QED
    BY <2>1, <2>2 DEF OldCallsAreForgotten, Current
<1> QED
  BY <1>1, <1>3, <1>6

LEMMA StartStep ==
    ASSUME IInv, NEW k \in DOMAIN pending_tool_invocations,
           Compatible(pending_tool_invocations[k]), Start(k)
    PROVE  (FreshIsUnused /\ MutatingRunsAlone /\ OldCallsAreForgotten)'
<1> DEFINE x == pending_tool_invocations[k]
<1>1. x \in Entry /\ x.call \in Calls /\ x.conv \in Convs /\ x.kind \in {"pure", "mutating"}
  <2>1. x \in Entry
    <3> HIDE DEF Entry
    <3> QED
      BY DEF IInv, TypeOK
  <2> QED
    BY <2>1 DEF Entry
<1>2. \A m \in DOMAIN pending_tool_invocations' :
          \E j \in DOMAIN pending_tool_invocations :
              pending_tool_invocations'[m] = pending_tool_invocations[j]
  BY RemoveOne DEF IInv, TypeOK, Start
<1>3. /\ in_flight_tool_kinds' = [in_flight_tool_kinds EXCEPT ![x.call] = x.kind]
      /\ tool_conversations' = [tool_conversations EXCEPT ![x.call] = x.conv]
      /\ UNCHANGED <<remaining_calls, fresh, requested, emitted>>
  BY DEF Start, turns
<1>4. x.call \notin fresh
  BY DEF IInv, FreshIsUnused
<1>5. FreshIsUnused'
  BY <1>1, <1>2, <1>3, <1>4 DEF IInv, TypeOK, FreshIsUnused
<1>6. \A d \in Calls : d # x.call =>
          /\ in_flight_tool_kinds'[d] = in_flight_tool_kinds[d]
          /\ tool_conversations'[d] = tool_conversations[d]
  BY <1>1, <1>3 DEF IInv, TypeOK
<1>7. in_flight_tool_kinds'[x.call] = x.kind /\ tool_conversations'[x.call] = x.conv
  BY <1>1, <1>3 DEF IInv, TypeOK
<1>8. \A q \in Convs : \A d \in InFlightFor(q)' : d # x.call => d \in InFlightFor(q)
  BY <1>6 DEF InFlightFor
<1>9. MutatingRunsAlone'
  <2> SUFFICES ASSUME NEW q \in Convs, NEW d \in InFlightFor(q)', NEW e \in InFlightFor(q)', d # e
               PROVE  in_flight_tool_kinds'[d] = "pure" /\ in_flight_tool_kinds'[e] = "pure"
    BY DEF MutatingRunsAlone
  <2>0. d \in Calls /\ e \in Calls
    BY DEF InFlightFor
  <2>1. CASE d # x.call /\ e # x.call
    BY <1>6, <1>8, <2>0, <2>1 DEF IInv, MutatingRunsAlone
  <2>2. ASSUME NEW f \in InFlightFor(q)', f # x.call, x.call \in InFlightFor(q)'
        PROVE  in_flight_tool_kinds'[f] = "pure" /\ in_flight_tool_kinds'[x.call] = "pure"
    <3>1. q = x.conv
      BY <1>7, <2>2 DEF InFlightFor
    <3>2. f \in InFlightFor(x.conv) /\ f \in Calls
      BY <1>8, <2>2, <3>1 DEF InFlightFor
    <3>3. x.kind = "pure" /\ in_flight_tool_kinds[f] = "pure"
      BY <3>2 DEF Compatible
    <3> QED
      BY <1>6, <1>7, <2>2, <3>2, <3>3
  <2> QED
    BY <2>1, <2>2
<1>10. OldCallsAreForgotten'
  <2>1. Current' = Current
    BY <1>3 DEF Current
  <2>2. x.call \in Current
    BY <1>1 DEF IInv, OldCallsAreForgotten, Queued, Current
  <2>3. \A d \in Calls : tool_conversations'[d] # None => d \in Current'
    BY <1>6, <2>1, <2>2 DEF IInv, OldCallsAreForgotten, Current
  <2>4. \A q \in Convs : Queued(q)' \subseteq Queued(q)
    BY <1>2 DEF Queued
  <2>5. \A q \in Convs : remaining_calls'[q] \cup Queued(q)' \subseteq Current'
    BY <1>3, <2>1, <2>4 DEF IInv, OldCallsAreForgotten, Current
  <2> QED
    BY <2>3, <2>5 DEF OldCallsAreForgotten, Current
<1> QED
  BY <1>5, <1>9, <1>10

(* Where the items of a concatenation come from. *)
LEMMA Concatenated ==
    ASSUME NEW S, NEW T, NEW a \in Seq(S), NEW b \in Seq(T)
    PROVE  /\ \A k \in DOMAIN a : k \in DOMAIN (a \o b) /\ (a \o b)[k] = a[k]
           /\ \A k \in DOMAIN b : \E j \in DOMAIN (a \o b) : (a \o b)[j] = b[k]
           /\ \A j \in DOMAIN (a \o b) :
                 \/ j \in DOMAIN a /\ (a \o b)[j] = a[j]
                 \/ \E k \in DOMAIN b : (a \o b)[j] = b[k]
<1>1. /\ Len(a) \in Nat /\ DOMAIN a = 1..Len(a)
      /\ Len(b) \in Nat /\ DOMAIN b = 1..Len(b)
      /\ DOMAIN (a \o b) = 1..(Len(a) + Len(b))
  OBVIOUS
<1>2. \A j \in 1..(Len(a) + Len(b)) :
          (a \o b)[j] = IF j <= Len(a) THEN a[j] ELSE b[j - Len(a)]
  OBVIOUS
<1>3. ASSUME NEW k \in DOMAIN a
      PROVE  k \in DOMAIN (a \o b) /\ (a \o b)[k] = a[k]
  BY <1>1, <1>2
<1>4. ASSUME NEW k \in DOMAIN b
      PROVE  \E j \in DOMAIN (a \o b) : (a \o b)[j] = b[k]
  <2> DEFINE j == Len(a) + k
  <2>1. j \in 1..(Len(a) + Len(b)) /\ ~(j <= Len(a)) /\ j - Len(a) = k
    BY <1>1
  <2> QED
    BY <1>1, <1>2, <2>1
<1>5. ASSUME NEW j \in DOMAIN (a \o b)
      PROVE  \/ j \in DOMAIN a /\ (a \o b)[j] = a[j]
             \/ \E k \in DOMAIN b : (a \o b)[j] = b[k]
  <2>1. CASE j <= Len(a)
    BY <1>1, <1>2, <2>1
  <2>2. CASE ~(j <= Len(a))
    <3>1. j - Len(a) \in DOMAIN b
      BY <1>1, <2>2
    <3> QED
      BY <1>1, <1>2, <2>2, <3>1
  <2> QED
    BY <2>1, <2>2
<1> QED
  BY <1>3, <1>4, <1>5

LEMMA RespondStep ==
    ASSUME IInv, NEW q \in Convs, NEW s \in Responses, RespondWithCalls(q, s)
    PROVE  (FreshIsUnused /\ MutatingRunsAlone /\ OldCallsAreForgotten)'
<1> DEFINE added == [k \in DOMAIN s |-> [conv |-> q, call |-> s[k], kind |-> KindOf(s[k])]]
           named == [k \in DOMAIN s |-> [conv |-> q, call |-> s[k]]]
<1>1. /\ s \in Seq(Calls) /\ ToSet(s) \subseteq fresh
      /\ ToSet(s) = {s[k] : k \in DOMAIN s}
  BY ResponseTypes DEF IInv, ToSet
<1>2. /\ pending_tool_invocations' = pending_tool_invocations \o added
      /\ emitted' = emitted \o named
      /\ fresh' = fresh \ ToSet(s)
      /\ remaining_calls' = [remaining_calls EXCEPT ![q] = ToSet(s)]
      /\ UNCHANGED <<in_flight_tool_kinds, tool_conversations, requested>>
  BY DEF RespondWithCalls, tracking
<1>3. /\ DOMAIN added = DOMAIN s /\ DOMAIN named = DOMAIN s
      /\ added \in Seq({added[k] : k \in DOMAIN s})
      /\ named \in Seq({named[k] : k \in DOMAIN s})
  <2>1. DOMAIN s = 1..Len(s) /\ Len(s) \in Nat
    BY <1>1
  <2>2. DOMAIN added = 1..Len(s) /\ DOMAIN named = 1..Len(s)
    BY <2>1
  <2> HIDE DEF added, named
  <2>3. added = [k \in 1..Len(s) |-> added[k]] /\ named = [k \in 1..Len(s) |-> named[k]]
    BY <2>2 DEF added, named
  <2>4. added \in Seq({added[k] : k \in DOMAIN s})
    BY <2>1, <2>3
  <2>5. named \in Seq({named[k] : k \in DOMAIN s})
    BY <2>1, <2>3
  <2> QED
    BY <2>1, <2>2, <2>4, <2>5
<1>4. \A k \in DOMAIN s : added[k].call = s[k] /\ added[k].conv = q /\ named[k].call = s[k]
  OBVIOUS
<1>5. pending_tool_invocations \in Seq(Entry) /\ emitted \in Seq([conv : Convs, call : Calls])
  BY DEF IInv, TypeOK
<1> HIDE DEF added, named, Entry
<1>6. \A k \in DOMAIN pending_tool_invocations' :
          \/ k \in DOMAIN pending_tool_invocations
             /\ pending_tool_invocations'[k] = pending_tool_invocations[k]
          \/ \E j \in DOMAIN s : pending_tool_invocations'[k] = added[j]
  <2> DEFINE both == pending_tool_invocations \o added
  <2>1. \A k \in DOMAIN both :
            \/ k \in DOMAIN pending_tool_invocations /\ both[k] = pending_tool_invocations[k]
            \/ \E j \in DOMAIN added : both[k] = added[j]
    <3>1. PICK A : added \in Seq(A)
      BY <1>3
    <3> QED
      BY <1>5, <3>1, Concatenated
  <2> HIDE DEF both
  <2>2. pending_tool_invocations' = both
    BY <1>2 DEF both
  <2> QED
    BY <1>3, <2>1, <2>2
<1>7. /\ \A k \in DOMAIN emitted : k \in DOMAIN emitted' /\ emitted'[k] = emitted[k]
      /\ \A j \in DOMAIN s : \E k \in DOMAIN emitted' : emitted'[k] = named[j]
  <2> DEFINE both == emitted \o named
  <2>1. /\ \A k \in DOMAIN emitted : k \in DOMAIN both /\ both[k] = emitted[k]
        /\ \A j \in DOMAIN named : \E k \in DOMAIN both : both[k] = named[j]
    <3>1. PICK A : named \in Seq(A)
      BY <1>3
    <3> QED
      BY <1>5, <3>1, Concatenated
  <2> HIDE DEF both
  <2>2. emitted' = both
    BY <1>2 DEF both
  <2> QED
    BY <1>3, <2>1, <2>2
<1>8. FreshIsUnused'
  <2>1. \A k \in DOMAIN pending_tool_invocations' : pending_tool_invocations'[k].call \notin fresh'
    BY <1>1, <1>2, <1>4, <1>6 DEF IInv, FreshIsUnused
  <2>2. \A d \in fresh' : in_flight_tool_kinds'[d] = "none"
    BY <1>2 DEF IInv, FreshIsUnused
  <2> QED
    BY <2>1, <2>2 DEF FreshIsUnused
<1>9. MutatingRunsAlone'
  BY <1>2 DEF IInv, MutatingRunsAlone, InFlightFor
<1>10. OldCallsAreForgotten'
  <2>1. Current \subseteq Current' /\ ToSet(s) \subseteq Current'
    <3>1. ASSUME NEW d \in Current
          PROVE  d \in Current'
      BY <1>2, <1>7 DEF Current
    <3>2. ASSUME NEW j \in DOMAIN s
          PROVE  s[j] \in Current'
      <4>1. PICK k \in DOMAIN emitted' : emitted'[k] = named[j]
        BY <1>7
      <4>2. emitted'[k].call = s[j]
        BY <1>4, <4>1
      <4> QED
        BY <4>2 DEF Current
    <3> QED
      BY <1>1, <3>1, <3>2
  <2>2. \A d \in Calls : tool_conversations'[d] # None => d \in Current'
    BY <1>2, <2>1 DEF IInv, OldCallsAreForgotten, Current
  <2>3. \A p \in Convs : Queued(p)' \subseteq Queued(p) \cup ToSet(s)
    BY <1>1, <1>4, <1>6 DEF Queued
  <2>4. \A p \in Convs : remaining_calls'[p] \subseteq remaining_calls[p] \cup ToSet(s)
    BY <1>2 DEF IInv, TypeOK
  <2>5. \A p \in Convs : remaining_calls[p] \cup Queued(p) \subseteq Current
    BY DEF IInv, OldCallsAreForgotten, Current
  <2>6. \A p \in Convs : remaining_calls'[p] \cup Queued(p)' \subseteq Current'
    BY <2>1, <2>3, <2>4, <2>5
  <2> QED
    BY <2>2, <2>6 DEF OldCallsAreForgotten, Current
<1> QED
  BY <1>8, <1>9, <1>10

LEMMA RequestStep ==
    ASSUME IInv, NEW d \in Calls, ToolRequest(d)
    PROVE  (FreshIsUnused /\ MutatingRunsAlone /\ OldCallsAreForgotten)'
<1>1. /\ d \in fresh /\ in_flight_tool_kinds[d] = "none"
      /\ fresh' = fresh \ {d} /\ requested' = requested \cup {d}
      /\ UNCHANGED <<in_flight_tool_kinds, pending_tool_invocations, remaining_calls, emitted>>
      /\ \A e \in Calls : e # d => tool_conversations'[e] = tool_conversations[e]
  BY DEF IInv, TypeOK, FreshIsUnused, ToolRequest, turns
<1>2. FreshIsUnused'
  BY <1>1 DEF IInv, FreshIsUnused
<1>3. \A q \in Convs : InFlightFor(q)' \subseteq InFlightFor(q)
  BY <1>1 DEF InFlightFor
<1>4. MutatingRunsAlone'
  BY <1>1, <1>3 DEF IInv, MutatingRunsAlone
<1>5. OldCallsAreForgotten'
  <2>1. Current' = Current \cup {d}
    BY <1>1 DEF Current
  <2>2. \A q \in Convs : Queued(q)' = Queued(q)
    BY <1>1 DEF Queued
  <2> QED
    BY <1>1, <2>1, <2>2 DEF IInv, OldCallsAreForgotten, Current
<1> QED
  BY <1>2, <1>4, <1>5

LEMMA SwitchStep ==
    ASSUME IInv, SwitchSession
    PROVE  (FreshIsUnused /\ MutatingRunsAlone /\ OldCallsAreForgotten)'
<1>1. FreshIsUnused'
  BY DEF IInv, FreshIsUnused, SwitchSession, outside
<1>2. \A q \in Convs : InFlightFor(q)' = {} /\ Queued(q)' = {} /\ remaining_calls'[q] = {}
  BY ToolSchedulerAssumption DEF InFlightFor, Queued, SwitchSession
<1>3. MutatingRunsAlone' /\ OldCallsAreForgotten'
  BY <1>2 DEF MutatingRunsAlone, OldCallsAreForgotten, SwitchSession
<1> QED
  BY <1>1, <1>3

LEMMA QuietHandlers ==
    ASSUME IInv, DrainEnd \/ Done \/ CompleteTurn \/ ClearTracking \/ FailCall \/ Gone
    PROVE  Quiet
<1>1. CASE DrainEnd \/ FailCall \/ Gone
  BY <1>1 DEF DrainEnd, FailCall, Gone, Quiet, turns, tracking, providers, outside, history
<1>2. CASE Done
  BY <1>2, TopOfStack DEF IInv, TypeOK, Done, Quiet, turns, providers, outside, history
<1>3. CASE CompleteTurn
  <2>1. \A r \in Convs : remaining_calls'[r] \subseteq remaining_calls[r]
    BY <1>3, CompletedTurn DEF IInv
  <2>2. UNCHANGED <<pending_tool_invocations, tracking, fresh, requested, emitted>>
    BY <1>3 DEF CompleteTurn, outside, history
  <2> QED
    BY <2>1, <2>2 DEF Quiet, tracking
<1>4. CASE ClearTracking
  BY <1>4, TopOfStack DEF IInv, TypeOK, ClearTracking, Quiet, turns, providers, outside, history
<1> QED
  BY <1>1, <1>2, <1>3, <1>4

LEMMA QuietFrames ==
    ASSUME IInv,
           \/ \E c \in Conns, t \in Tools : ToolRegister(c, t)
           \/ Prompt
           \/ \E q \in Convs : RespondWithText(q)
           \/ \E d \in Calls, q \in Convs : ExtAgentQuery(d, q)
           \/ \E d \in Calls : ToolResult(d) \/ DuplicateResult(d)
           \/ \E c \in Conns : Disconnect(c)
           \/ CancelPrompt
           \/ UNCHANGED vars
    PROVE  Quiet
<1>1. CASE CancelPrompt
  BY <1>1, CancelQueue DEF IInv, CancelPrompt, Quiet, outside, history
<1>2. ASSUME UNCHANGED <<pending_tool_invocations, in_flight_tool_kinds, tool_conversations,
                         remaining_calls, fresh, requested, emitted>>
      PROVE  Quiet
  BY <1>2 DEF Quiet
<1>3. CASE \/ \E c \in Conns, t \in Tools : ToolRegister(c, t)
           \/ Prompt
           \/ \E q \in Convs : RespondWithText(q)
           \/ \E d \in Calls, q \in Convs : ExtAgentQuery(d, q)
  BY <1>2, <1>3 DEF ToolRegister, Prompt, RespondWithText, ExtAgentQuery, turns, tracking,
                    outside, history
<1>4. CASE \/ \E d \in Calls : ToolResult(d) \/ DuplicateResult(d)
           \/ \E c \in Conns : Disconnect(c)
           \/ UNCHANGED vars
  BY <1>2, <1>4 DEF ToolResult, DuplicateResult, Disconnect, vars, turns, tracking, outside,
                    history
<1> QED
  BY <1>1, <1>3, <1>4

LEMMA InitInvariant == Init => IInv
BY InitTypes DEF Init, IInv, FreshIsUnused, MutatingRunsAlone, OldCallsAreForgotten, InFlightFor,
                 Queued

LEMMA NextInvariant == IInv /\ [Next]_vars => IInv'
<1> SUFFICES ASSUME IInv, [Next]_vars PROVE (FreshIsUnused /\ MutatingRunsAlone /\ OldCallsAreForgotten)'
  BY NextTypes DEF IInv
<1>1. CASE Drain
  <2>1. PICK k \in Startable : Start(k)
    BY <1>1 DEF Drain
  <2> QED
    BY <2>1, StartStep DEF Startable
<1>2. CASE Handler /\ ~Drain
  BY <1>2, QuietHandlers, QuietStep DEF Handler
<1>3. CASE \E q \in Convs : \E s \in Responses : RespondWithCalls(q, s)
  BY <1>3, RespondStep
<1>4. CASE \E d \in Calls : ToolRequest(d)
  BY <1>4, RequestStep
<1>5. CASE SwitchSession
  BY <1>5, SwitchStep
<1>6. CASE \/ \E c \in Conns, t \in Tools : ToolRegister(c, t)
           \/ Prompt
           \/ \E q \in Convs : RespondWithText(q)
           \/ \E d \in Calls, q \in Convs : ExtAgentQuery(d, q)
           \/ \E d \in Calls : ToolResult(d) \/ DuplicateResult(d)
           \/ \E c \in Conns : Disconnect(c)
           \/ CancelPrompt
           \/ UNCHANGED vars
  BY <1>6, QuietFrames, QuietStep
<1> QED
  BY <1>1, <1>2, <1>3, <1>4, <1>5, <1>6 DEF Next

LEMMA Invariance == Spec => []IInv
BY InitInvariant, NextInvariant, PTL DEF Spec

-----------------------------------------------------------------------------
(* What is answered, when a turn goes on, and in which order calls start.   *)
(* Handlers nest, so all of it is said of the stack of what the running     *)
(* handlers have still to do.                                              *)

At(w, op, d) == \E i \in DOMAIN w : w[i].op = op /\ w[i].call = d

(* The steps of a completion stay together, and no call has two of any.     *)
Stack(w) ==
    /\ \A i \in DOMAIN w : w[i].op = "done" =>
          /\ i + 3 \in DOMAIN w
          /\ w[i + 1] = Do("drain", None)
          /\ w[i + 2] = Do("turn", w[i].call)
          /\ w[i + 3] = Do("clear", w[i].call)
    /\ \A i \in DOMAIN w : w[i].op = "turn" =>
          i + 1 \in DOMAIN w /\ w[i + 1] = Do("clear", w[i].call)
    /\ \A i, j \in DOMAIN w :
          /\ w[i].op \in {"turn", "clear", "fail"}
          /\ w[i].op = w[j].op
          /\ w[i].call = w[j].call
          => i = j

(* What waits in the queue is a call of an agent, once, and nothing of it    *)
(* has happened yet.                                                       *)
QueueInv ==
    /\ \A k \in DOMAIN pending_tool_invocations :
          /\ answers[pending_tool_invocations[k].call] = 0
          /\ tool_conversations[pending_tool_invocations[k].call] = None
          /\ pending_tool_invocations[k].call \notin requested
          /\ \E m \in DOMAIN emitted :
                /\ emitted[m].call = pending_tool_invocations[k].call
                /\ emitted[m].conv = pending_tool_invocations[k].conv
    /\ \A j, k \in DOMAIN pending_tool_invocations :
          pending_tool_invocations[j].call = pending_tool_invocations[k].call => j = k

FreshInv ==
    /\ \A d \in fresh :
          /\ answers[d] = 0
          /\ tool_conversations[d] = None
          /\ d \notin requested
          /\ \A m \in DOMAIN emitted : emitted[m].call # d
          /\ \A j \in DOMAIN started : started[j] # d
    /\ \A m, n \in DOMAIN emitted : emitted[m].call = emitted[n].call => m = n

(* What the tables and the stack say of one call.                           *)
Tracked(d) ==
    /\ answers[d] \in {0, 1}
    /\ pending_tool_providers[d] # None => tool_conversations[d] # None
    /\ tool_conversations[d] # None /\ answers[d] = 1 => At(work, "clear", d)
    /\ At(work, "clear", d) => answers[d] = 1
    /\ At(work, "fail", d) => answers[d] = 0
    /\ d \in requested => in_flight_tool_kinds[d] = "none"
    /\ At(work, "clear", d) /\ in_flight_tool_kinds[d] # "none" => At(work, "done", d)
    /\ tool_conversations[d] # None /\ d \notin requested =>
          in_flight_tool_kinds[d] # "none" \/ At(work, "clear", d)
    /\ tool_conversations[d] # None /\ in_flight_tool_kinds[d] # "none" =>
          pending_tool_providers[d] # None \/ At(work, "done", d)

(* A call that is about to fail is neither queued nor yet to be made.       *)
FailInv ==
    /\ \A k \in DOMAIN pending_tool_invocations :
          ~At(work, "fail", pending_tool_invocations[k].call)
    /\ \A d \in fresh : ~At(work, "fail", d)

CallsInv == Stack(work) /\ QueueInv /\ FreshInv /\ FailInv /\ \A d \in Calls : Tracked(d)

(* What runs, or has run and is still to be taken from its turn.            *)
Waited(d) == in_flight_tool_kinds[d] # "none" \/ (At(work, "turn", d) /\ d \notin requested)

(* The calls a turn still waits for, but for those that are queued.          *)
Outstanding(q) == {d \in Calls : tool_conversations[d] = q /\ Waited(d)}

TurnInv ==
    \A q \in Convs :
        IF turn_state[q] = "tools"
        THEN remaining_calls[q] # {} /\ remaining_calls[q] = Queued(q) \cup Outstanding(q)
        ELSE Queued(q) = {} /\ Outstanding(q) = {}

ResultsInv ==
    \A m \in DOMAIN emitted : answers[emitted[m].call] = 0 =>
        /\ turn_state[emitted[m].conv] = "tools"
        /\ emitted[m].call \in remaining_calls[emitted[m].conv]

(* Started calls come before queued ones, and these are in order.           *)
Before(E, d, e) ==
    \A m, n \in DOMAIN E : E[m].call = d /\ E[n].call = e /\ E[m].conv = E[n].conv => m < n

OrderInv ==
    /\ \A j, k \in DOMAIN started : j < k => Before(emitted, started[j], started[k])
    /\ \A j \in DOMAIN started, k \in DOMAIN pending_tool_invocations :
          Before(emitted, started[j], pending_tool_invocations[k].call)
    /\ \A j, k \in DOMAIN pending_tool_invocations :
          j < k => Before(emitted, pending_tool_invocations[j].call, pending_tool_invocations[k].call)

(* What could start has a loop that will start it.                          *)
ServedInv == Startable # {} => At(work, "drain", None)

(* What stands in a stack whose completions are whole.                      *)
LEMMA StackFacts ==
    ASSUME NEW w \in Seq(Step), Stack(w), NEW d
    PROVE  /\ At(w, "done", d) => At(w, "drain", None) /\ At(w, "turn", d) /\ At(w, "clear", d)
           /\ At(w, "turn", d) => At(w, "clear", d)
<1> DEFINE n == Len(w)
<1>0. n \in Nat /\ DOMAIN w = 1..n
  OBVIOUS
<1> HIDE DEF n
<1>1. ASSUME At(w, "done", d)
      PROVE  At(w, "drain", None) /\ At(w, "turn", d) /\ At(w, "clear", d)
  <2>1. PICK i \in DOMAIN w : w[i].op = "done" /\ w[i].call = d
    BY <1>1 DEF At
  <2>2. /\ i + 3 \in DOMAIN w
        /\ w[i + 1] = Do("drain", None)
        /\ w[i + 2] = Do("turn", d)
        /\ w[i + 3] = Do("clear", d)
    BY <2>1 DEF Stack
  <2>3. i + 1 \in DOMAIN w /\ i + 2 \in DOMAIN w
    BY <1>0, <2>1, <2>2
  <2> QED
    BY <2>2, <2>3 DEF At, Do
<1>2. ASSUME At(w, "turn", d)
      PROVE  At(w, "clear", d)
  <2>1. PICK i \in DOMAIN w : w[i].op = "turn" /\ w[i].call = d
    BY <1>2 DEF At
  <2>2. i + 1 \in DOMAIN w /\ w[i + 1] = Do("clear", d)
    BY <2>1 DEF Stack
  <2> QED
    BY <2>2 DEF At, Do
<1> QED
  BY <1>1, <1>2

(* A step taken off the stack. *)
LEMMA Popped ==
    ASSUME NEW w \in Seq(Step), w # <<>>, Stack(w)
    PROVE  /\ Stack(Tail(w))
           /\ \A o, d : At(Tail(w), o, d) => At(w, o, d)
           /\ \A o, d : At(w, o, d) => At(Tail(w), o, d) \/ (Head(w).op = o /\ Head(w).call = d)
           /\ Head(w).op \in {"turn", "clear", "fail"} => ~At(Tail(w), Head(w).op, Head(w).call)
           /\ Head(w).op = "done" => /\ At(Tail(w), "drain", None)
                                     /\ At(Tail(w), "turn", Head(w).call)
                                     /\ At(Tail(w), "clear", Head(w).call)
<1> DEFINE n == Len(w)
           t == Tail(w)
<1>1. /\ n \in Nat \ {0} /\ DOMAIN w = 1..n
      /\ t \in Seq(Step) /\ DOMAIN t = 1..(n - 1)
      /\ \A i \in 1..(n - 1) : t[i] = w[i + 1]
      /\ Head(w) = w[1]
  <2> HIDE DEF Step
  <2> QED
    OBVIOUS
<1> HIDE DEF n, t, Step
<1>2. /\ 1 \in 1..n
      /\ \A i \in 1..(n - 1) : i + 1 \in 1..n /\ i + 1 # 1
      /\ \A i, j \in 1..(n - 1) : i + 1 = j + 1 => i = j
      /\ \A i \in 1..n : i = 1 \/ (i - 1 \in 1..(n - 1) /\ (i - 1) + 1 = i)
  BY <1>1
<1>3. \A i \in 1..(n - 1) :
          /\ (i + 1) + 3 \in 1..n => /\ i + 1 \in 1..(n - 1) /\ (i + 1) + 1 = (i + 1) + 1
                                     /\ i + 2 \in 1..(n - 1) /\ (i + 2) + 1 = (i + 1) + 2
                                     /\ i + 3 \in 1..(n - 1) /\ (i + 3) + 1 = (i + 1) + 3
          /\ (i + 1) + 1 \in 1..n => i + 1 \in 1..(n - 1)
  BY <1>1
<1>4. Stack(t)
  <2>1. ASSUME NEW i \in 1..(n - 1), t[i].op = "done"
        PROVE  /\ i + 3 \in 1..(n - 1)
               /\ t[i + 1] = Do("drain", None)
               /\ t[i + 2] = Do("turn", t[i].call)
               /\ t[i + 3] = Do("clear", t[i].call)
    <3>1. /\ (i + 1) + 3 \in 1..n
          /\ w[(i + 1) + 1] = Do("drain", None)
          /\ w[(i + 1) + 2] = Do("turn", t[i].call)
          /\ w[(i + 1) + 3] = Do("clear", t[i].call)
      <4>1. t[i] = w[i + 1] /\ i + 1 \in DOMAIN w
        BY <1>1, <1>2
      <4>2. w[i + 1].op = "done"
        BY <2>1, <4>1
      <4>3. /\ (i + 1) + 3 \in DOMAIN w
            /\ w[(i + 1) + 1] = Do("drain", None)
            /\ w[(i + 1) + 2] = Do("turn", w[i + 1].call)
            /\ w[(i + 1) + 3] = Do("clear", w[i + 1].call)
        <5>1. \A a \in DOMAIN w : w[a].op = "done" =>
                 /\ a + 3 \in DOMAIN w
                 /\ w[a + 1] = Do("drain", None)
                 /\ w[a + 2] = Do("turn", w[a].call)
                 /\ w[a + 3] = Do("clear", w[a].call)
          BY DEF Stack
        <5> QED
          BY <4>1, <4>2, <5>1
      <4>4. DOMAIN w = 1..n
        BY <1>1
      <4> QED
        BY <4>1, <4>3, <4>4
    <3>2. t[i + 1] = w[(i + 1) + 1] /\ t[i + 2] = w[(i + 1) + 2] /\ t[i + 3] = w[(i + 1) + 3]
      <4>1. \A j \in 1..(n - 1) : t[j] = w[j + 1]
        BY <1>1
      <4> QED
        BY <1>3, <3>1, <4>1
    <3> QED
      BY <1>3, <3>1, <3>2
  <2>2. ASSUME NEW i \in 1..(n - 1), t[i].op = "turn"
        PROVE  i + 1 \in 1..(n - 1) /\ t[i + 1] = Do("clear", t[i].call)
    <3>1. (i + 1) + 1 \in 1..n /\ w[(i + 1) + 1] = Do("clear", t[i].call)
      <4>1. t[i] = w[i + 1] /\ i + 1 \in DOMAIN w
        BY <1>1, <1>2
      <4>2. w[i + 1].op = "turn"
        BY <2>2, <4>1
      <4> QED
        BY <1>1, <4>1, <4>2 DEF Stack
    <3> QED
      BY <1>1, <1>3, <3>1
  <2>3. ASSUME NEW i \in 1..(n - 1), NEW j \in 1..(n - 1),
               t[i].op \in {"turn", "clear", "fail"}, t[i].op = t[j].op, t[i].call = t[j].call
        PROVE  i = j
    <3>1. i + 1 = j + 1
      <4>1. t[i] = w[i + 1] /\ t[j] = w[j + 1] /\ i + 1 \in DOMAIN w /\ j + 1 \in DOMAIN w
        BY <1>1, <1>2
      <4> QED
        BY <2>3, <4>1 DEF Stack
    <3> QED
      BY <1>2, <3>1
  <2> QED
    BY <1>1, <2>1, <2>2, <2>3 DEF Stack
<1>5. ASSUME NEW o, NEW d, At(t, o, d)
      PROVE  At(w, o, d)
  <2>1. PICK i \in 1..(n - 1) : t[i].op = o /\ t[i].call = d
    BY <1>1, <1>5 DEF At
  <2>2. t[i] = w[i + 1] /\ i + 1 \in DOMAIN w
    BY <1>1, <1>2
  <2> QED
    BY <2>1, <2>2 DEF At
<1>6. ASSUME NEW o, NEW d, At(w, o, d)
      PROVE  At(t, o, d) \/ (Head(w).op = o /\ Head(w).call = d)
  <2>1. PICK i \in 1..n : w[i].op = o /\ w[i].call = d
    BY <1>1, <1>6 DEF At
  <2>2. CASE i = 1
    BY <1>1, <2>1, <2>2
  <2>3. CASE i - 1 \in 1..(n - 1) /\ (i - 1) + 1 = i
    <3>1. t[i - 1] = w[i]
      BY <1>1, <2>3
    <3> QED
      BY <1>1, <2>1, <2>3, <3>1 DEF At
  <2> QED
    BY <1>2, <2>2, <2>3
<1>7. ASSUME w[1].op \in {"turn", "clear", "fail"}, At(t, w[1].op, w[1].call)
      PROVE  FALSE
  <2>1. PICK i \in 1..(n - 1) : t[i].op = w[1].op /\ t[i].call = w[1].call
    BY <1>1, <1>7 DEF At
  <2>2. w[i + 1].op = w[1].op /\ w[i + 1].call = w[1].call /\ i + 1 \in DOMAIN w /\ 1 \in DOMAIN w
    BY <1>1, <1>2, <2>1
  <2>3. i + 1 = 1
    BY <1>7, <2>2 DEF Stack
  <2> QED
    BY <1>2, <2>3
<1>8. ASSUME w[1].op = "done"
      PROVE  At(t, "drain", None) /\ At(t, "turn", w[1].call) /\ At(t, "clear", w[1].call)
  <2>1. /\ 1 + 3 \in 1..n
        /\ w[1 + 1] = Do("drain", None)
        /\ w[1 + 2] = Do("turn", w[1].call)
        /\ w[1 + 3] = Do("clear", w[1].call)
    BY <1>1, <1>2, <1>8 DEF Stack
  <2>2. 1 \in 1..(n - 1) /\ 2 \in 1..(n - 1) /\ 3 \in 1..(n - 1) /\ 2 + 1 = 1 + 2 /\ 3 + 1 = 1 + 3
    BY <1>1, <2>1
  <2>3. t[1] = w[1 + 1] /\ t[2] = w[1 + 2] /\ t[3] = w[1 + 3]
    BY <1>1, <2>2
  <2>4. 1 \in DOMAIN t /\ 2 \in DOMAIN t /\ 3 \in DOMAIN t
    BY <1>1, <2>2
  <2>5. t[1] = Do("drain", None) /\ t[2] = Do("turn", w[1].call) /\ t[3] = Do("clear", w[1].call)
    BY <2>1, <2>3
  <2> QED
    BY <2>4, <2>5 DEF At, Do
<1> QED
  BY <1>1, <1>4, <1>5, <1>6, <1>7, <1>8 DEF t

(* The steps of a completion put on the stack. *)
LEMMA Pushed ==
    ASSUME NEW w \in Seq(Step), Stack(w), NEW d \in Calls, ~At(w, "clear", d)
    PROVE  /\ Stack(Completion(d) \o w)
           /\ \A o, e : At(Completion(d) \o w, o, e) <=>
                  \/ At(w, o, e)
                  \/ o = "drain" /\ e = None
                  \/ o \in {"done", "turn", "clear"} /\ e = d
<1> DEFINE n == Len(w)
           v == Completion(d) \o w
<1>1. /\ n \in Nat /\ DOMAIN w = 1..n /\ DOMAIN v = 1..(n + 4)
      /\ v[1] = Do("done", d) /\ v[2] = Do("drain", None)
      /\ v[3] = Do("turn", d) /\ v[4] = Do("clear", d)
      /\ \A i \in 1..n : v[i + 4] = w[i]
  <2> HIDE DEF Step, Do
  <2>1. Completion(d) = <<Do("done", d), Do("drain", None), Do("turn", d), Do("clear", d)>>
    BY DEF Completion
  <2> QED
    BY <2>1
<1> HIDE DEF n, v, Step
<1>2. /\ \A i \in 1..(n + 4) : i \in {1, 2, 3, 4} \/ \E j \in 1..n : i = j + 4
      /\ \A i \in {1, 2, 3, 4} : i \in 1..(n + 4)
      /\ \A j \in 1..n : j + 4 \in 1..(n + 4) /\ j + 4 \notin {1, 2, 3, 4}
  <2>1. ASSUME NEW i \in 1..(n + 4), i \notin {1, 2, 3, 4}
        PROVE  i - 4 \in 1..n /\ i = (i - 4) + 4
    BY <1>1, <2>1
  <2> QED
    BY <1>1, <2>1
<1>3. ~At(w, "turn", d) /\ ~At(w, "done", d)
  BY StackFacts
<1>4. ASSUME NEW o, NEW e
      PROVE  At(v, o, e) <=> \/ At(w, o, e)
                             \/ o = "drain" /\ e = None
                             \/ o \in {"done", "turn", "clear"} /\ e = d
  <2>1. \A j \in {1, 2, 3, 4} : v[j].op = o /\ v[j].call = e =>
            \/ o = "drain" /\ e = None
            \/ o \in {"done", "turn", "clear"} /\ e = d
    BY <1>1 DEF Do
  <2>2. \/ o = "drain" /\ e = None
        \/ o \in {"done", "turn", "clear"} /\ e = d
        => \E j \in {1, 2, 3, 4} : v[j].op = o /\ v[j].call = e
    BY <1>1 DEF Do
  <2>3. ASSUME At(v, o, e)
        PROVE  At(w, o, e) \/ \E j \in {1, 2, 3, 4} : v[j].op = o /\ v[j].call = e
    <3>1. PICK i \in 1..(n + 4) : v[i].op = o /\ v[i].call = e
      BY <1>1, <2>3 DEF At
    <3>2. ASSUME NEW j \in 1..n, i = j + 4
          PROVE  At(w, o, e)
      <4>1. v[i] = w[j]
        BY <1>1, <3>2
      <4> QED
        BY <1>1, <3>1, <4>1 DEF At
    <3> QED
      BY <1>2, <3>1, <3>2
  <2>4. (\E j \in {1, 2, 3, 4} : v[j].op = o /\ v[j].call = e) => At(v, o, e)
    BY <1>1, <1>2 DEF At
  <2>5. ASSUME At(w, o, e)
        PROVE  At(v, o, e)
    <3>1. PICK j \in 1..n : w[j].op = o /\ w[j].call = e
      BY <1>1, <2>5 DEF At
    <3>2. v[j + 4] = w[j] /\ j + 4 \in DOMAIN v
      BY <1>1, <1>2
    <3> QED
      BY <3>1, <3>2 DEF At
  <2> QED
    BY <2>1, <2>2, <2>3, <2>4, <2>5
<1>5. Stack(v)
  <2>1. ASSUME NEW i \in 1..(n + 4), v[i].op = "done"
        PROVE  /\ i + 3 \in 1..(n + 4)
               /\ v[i + 1] = Do("drain", None)
               /\ v[i + 2] = Do("turn", v[i].call)
               /\ v[i + 3] = Do("clear", v[i].call)
    <3>1. CASE i \in {1, 2, 3, 4}
      <4>1. i = 1
        BY <1>1, <2>1, <3>1 DEF Do
      <4> QED
        BY <1>1, <1>2, <4>1 DEF Do
    <3>2. ASSUME NEW j \in 1..n, i = j + 4
          PROVE  /\ i + 3 \in 1..(n + 4)
                 /\ v[i + 1] = Do("drain", None)
                 /\ v[i + 2] = Do("turn", v[i].call)
                 /\ v[i + 3] = Do("clear", v[i].call)
      <4>1. v[i] = w[j]
        BY <1>1, <3>2
      <4>2. /\ j + 3 \in 1..n
            /\ w[j + 1] = Do("drain", None)
            /\ w[j + 2] = Do("turn", v[i].call)
            /\ w[j + 3] = Do("clear", v[i].call)
        <5>1. w[j].op = "done" /\ j \in DOMAIN w
          BY <1>1, <2>1, <4>1
        <5>2. /\ j + 3 \in DOMAIN w
              /\ w[j + 1] = Do("drain", None)
              /\ w[j + 2] = Do("turn", w[j].call)
              /\ w[j + 3] = Do("clear", w[j].call)
          BY <5>1 DEF Stack
        <5> QED
          BY <1>1, <4>1, <5>2
      <4>3. /\ j + 1 \in 1..n /\ j + 2 \in 1..n
            /\ i + 1 = (j + 1) + 4 /\ i + 2 = (j + 2) + 4 /\ i + 3 = (j + 3) + 4
        <5>1. n \in Nat /\ j \in 1..n /\ j + 3 \in 1..n /\ i = j + 4
          BY <1>1, <3>2, <4>2
        <5> QED
          BY ONLY <5>1
      <4> QED
        BY <1>1, <1>2, <4>2, <4>3
    <3> QED
      BY <1>2, <3>1, <3>2
  <2>2. ASSUME NEW i \in 1..(n + 4), v[i].op = "turn"
        PROVE  i + 1 \in 1..(n + 4) /\ v[i + 1] = Do("clear", v[i].call)
    <3>1. CASE i \in {1, 2, 3, 4}
      <4>1. i = 3
        BY <1>1, <2>2, <3>1 DEF Do
      <4> QED
        BY <1>1, <1>2, <4>1 DEF Do
    <3>2. ASSUME NEW j \in 1..n, i = j + 4
          PROVE  i + 1 \in 1..(n + 4) /\ v[i + 1] = Do("clear", v[i].call)
      <4>1. v[i] = w[j]
        BY <1>1, <3>2
      <4>2. j + 1 \in 1..n /\ w[j + 1] = Do("clear", v[i].call)
        BY <1>1, <2>2, <4>1 DEF Stack
      <4>3. i + 1 = (j + 1) + 4
        BY <1>1, <3>2
      <4> QED
        BY <1>1, <1>2, <4>2, <4>3
    <3> QED
      BY <1>2, <3>1, <3>2
  <2>3. ASSUME NEW i \in 1..(n + 4), NEW j \in 1..(n + 4),
               v[i].op \in {"turn", "clear", "fail"}, v[i].op = v[j].op, v[i].call = v[j].call
        PROVE  i = j
    (* A step of the completion is not in the old stack. *)
    <3>1. ASSUME NEW a \in {1, 2, 3, 4}, NEW b \in 1..n, v[a].op \in {"turn", "clear", "fail"},
                 v[a].op = w[b].op, v[a].call = w[b].call
          PROVE  FALSE
      <4>1. v[a].call = d /\ v[a].op \in {"turn", "clear"}
        BY <1>1, <3>1 DEF Do
      <4>2. At(w, v[a].op, d)
        BY <1>1, <3>1, <4>1 DEF At
      <4> QED
        BY <1>3, <4>1, <4>2
    <3>2. ASSUME NEW a \in {1, 2, 3, 4}, NEW b \in {1, 2, 3, 4},
                 v[a].op \in {"turn", "clear", "fail"}, v[a].op = v[b].op
          PROVE  a = b
      BY <1>1, <3>2 DEF Do
    <3>3. CASE i \in {1, 2, 3, 4} /\ j \in {1, 2, 3, 4}
      BY <2>3, <3>2, <3>3
    <3>4. ASSUME NEW a \in 1..n, i = a + 4
          PROVE  i = j
      <4>1. v[i] = w[a]
        BY <1>1, <3>4
      <4>2. CASE j \in {1, 2, 3, 4}
        BY <2>3, <3>1, <4>1, <4>2
      <4>3. ASSUME NEW b \in 1..n, j = b + 4
            PROVE  i = j
        <5>1. v[j] = w[b]
          BY <1>1, <4>3
        <5>2. a \in DOMAIN w /\ b \in DOMAIN w
          BY <1>1
        <5>3. w[a].op \in {"turn", "clear", "fail"} /\ w[a].op = w[b].op /\ w[a].call = w[b].call
          BY <2>3, <4>1, <5>1
        <5>4. a = b
          BY <5>2, <5>3 DEF Stack
        <5> QED
          BY <3>4, <4>3, <5>4
      <4> QED
        BY <1>2, <4>2, <4>3
    <3>5. ASSUME NEW b \in 1..n, j = b + 4, i \in {1, 2, 3, 4}
          PROVE  i = j
      <4>1. v[j] = w[b]
        BY <1>1, <3>5
      <4> QED
        BY <2>3, <3>1, <3>5, <4>1
    <3> QED
      BY <1>2, <3>3, <3>4, <3>5
  <2> QED
    BY <1>1, <2>1, <2>2, <2>3 DEF Stack
<1> QED
  BY <1>4, <1>5 DEF v

(* The stack of a frame that begins one loop, or one completion, and of the  *)
(* failures of a disconnect.                                               *)
LEMMA FirstStacks ==
    /\ Stack(<<>>) /\ \A o, e : ~At(<<>>, o, e)
    /\ Stack(<<Do("drain", None)>>)
    /\ \A o, e : At(<<Do("drain", None)>>, o, e) <=> o = "drain" /\ e = None
    /\ \A d \in Calls : /\ Stack(Completion(d))
                        /\ \A o, e : At(Completion(d), o, e) <=>
                               \/ o = "drain" /\ e = None
                               \/ o \in {"done", "turn", "clear"} /\ e = d
<1>1. Stack(<<>>) /\ \A o, e : ~At(<<>>, o, e)
  BY DEF Stack, At
<1>2. /\ Stack(<<Do("drain", None)>>)
      /\ \A o, e : At(<<Do("drain", None)>>, o, e) <=> o = "drain" /\ e = None
  <2> DEFINE w == <<Do("drain", None)>>
  <2>1. DOMAIN w = {1} /\ w[1].op = "drain" /\ w[1].call = None
    BY DEF Do
  <2> HIDE DEF w
  <2>2. Stack(w)
    BY <2>1 DEF Stack
  <2>3. \A o, e : At(w, o, e) <=> o = "drain" /\ e = None
    BY <2>1 DEF At
  <2> QED
    BY <2>2, <2>3 DEF w
<1>3. ASSUME NEW d \in Calls
      PROVE  /\ Stack(Completion(d))
             /\ \A o, e : At(Completion(d), o, e) <=>
                    \/ o = "drain" /\ e = None
                    \/ o \in {"done", "turn", "clear"} /\ e = d
  <2>1. Completion(d) \o <<>> = Completion(d)
    <3>1. Completion(d) \in Seq(Step)
      BY StepTypes
    <3> HIDE DEF Step
    <3> QED
      BY <3>1
  <2>2. <<>> \in Seq(Step)
    OBVIOUS
  <2>3. /\ Stack(Completion(d) \o <<>>)
        /\ \A o, e : At(Completion(d) \o <<>>, o, e) <=>
               \/ At(<<>>, o, e)
               \/ o = "drain" /\ e = None
               \/ o \in {"done", "turn", "clear"} /\ e = d
    BY <1>1, <2>2, Pushed
  <2> QED
    BY <1>1, <2>1, <2>3
<1> QED
  BY <1>1, <1>2, <1>3

(* The stack of a disconnect: failures, and what ends it. *)
LEMMA FailingStack ==
    ASSUME NEW c \in Conns, NEW D \in SUBSET Calls, NEW s \in SetToSeqs(D)
    PROVE  LET w == [k \in DOMAIN s |-> Do("fail", s[k])] \o
                    <<[op |-> "gone", call |-> None, conn |-> c]>>
           IN  /\ Stack(w)
               /\ \A o, e : At(w, o, e) => o = "gone" \/ (o = "fail" /\ e \in D)
<1> DEFINE n == Cardinality(D)
           fails == [k \in DOMAIN s |-> Do("fail", s[k])]
           last == [op |-> "gone", call |-> None, conn |-> c]
           w == fails \o <<last>>
<1>1. /\ n \in Nat
      /\ s \in [1..n -> D]
      /\ \A i, j \in 1..n : i # j => s[i] # s[j]
  <2>1. n \in Nat
    BY FS_Subset, FS_CardinalityType, ToolSchedulerAssumption
  <2> QED
    BY <2>1 DEF SetToSeqs
<1> HIDE DEF n
<1>2. /\ DOMAIN w = 1..(n + 1)
      /\ \A i \in 1..n : w[i] = Do("fail", s[i])
      /\ w[n + 1] = last
  <2>1. fails = [k \in 1..n |-> Do("fail", s[k])]
    BY <1>1
  <2> HIDE DEF fails, last
  <2>2. \E S : fails \in Seq(S) /\ Len(fails) = n /\ \A i \in 1..n : fails[i] = Do("fail", s[i])
    <3>1. fails \in Seq({fails[k] : k \in 1..n})
      BY <1>1, <2>1
    <3>2. Len(fails) = n
      BY <1>1, <2>1
    <3> QED
      BY <2>1, <3>1, <3>2
  <2> QED
    BY <1>1, <2>2
<1>3. \A i \in 1..(n + 1) : i \in 1..n \/ i = n + 1
  BY <1>1
<1>4. \A i \in 1..(n + 1) : \/ i \in 1..n /\ w[i].op = "fail" /\ w[i].call = s[i] /\ s[i] \in D
                            \/ i = n + 1 /\ w[i].op = "gone"
  BY <1>1, <1>2, <1>3 DEF Do
<1> HIDE DEF w
<1>5. Stack(w)
  BY <1>1, <1>2, <1>4 DEF Stack
<1>6. \A o, e : At(w, o, e) => o = "gone" \/ (o = "fail" /\ e \in D)
  BY <1>2, <1>4 DEF At
<1> QED
  BY <1>5, <1>6 DEF w

-----------------------------------------------------------------------------

(* new is old with some items taken out; g says where the others were.      *)
Embeds(new, old, g) ==
    /\ g \in [DOMAIN new -> DOMAIN old]
    /\ \A a \in DOMAIN new : new[a] = old[g[a]]
    /\ \A a, b \in DOMAIN new : a < b => g[a] < g[b]
    /\ \A a, b \in DOMAIN new : g[a] = g[b] => a = b

(* A sequence without one of its items. *)
LEMMA Removed ==
    ASSUME NEW S, NEW s \in Seq(S), NEW i \in DOMAIN s
    PROVE  \E g : /\ Embeds(RemoveAt(s, i), s, g)
                  /\ \A a \in DOMAIN RemoveAt(s, i) : g[a] # i
                  /\ \A j \in DOMAIN s : j = i \/ \E a \in DOMAIN RemoveAt(s, i) : g[a] = j
<1> DEFINE a == SubSeq(s, 1, i - 1)
           b == SubSeq(s, i + 1, Len(s))
           r == RemoveAt(s, i)
           n == Len(s)
           g == [k \in 1..(n - 1) |-> IF k < i THEN k ELSE k + 1]
<1>1. i \in 1..n /\ n \in Nat /\ DOMAIN s = 1..n
  OBVIOUS
<1>2. /\ a \in Seq(S) /\ Len(a) = i - 1
      /\ \A k \in 1..(i - 1) : a[k] = s[k]
  BY <1>1
<1>3. /\ b \in Seq(S) /\ Len(b) = n - i
      /\ \A k \in 1..(n - i) : b[k] = s[i + k]
  BY <1>1
<1>4. r = a \o b
  BY DEF RemoveAt
<1> HIDE DEF a, b, r, n
<1>5. /\ a \o b \in Seq(S) /\ Len(a \o b) = Len(a) + Len(b)
      /\ \A k \in 1..(Len(a) + Len(b)) : (a \o b)[k] = IF k <= Len(a) THEN a[k] ELSE b[k - Len(a)]
  BY <1>2, <1>3, ConcatProperties
<1>6. DOMAIN r = 1..(n - 1)
  BY <1>1, <1>2, <1>3, <1>4, <1>5
<1>7. \A k \in 1..(n - 1) : g[k] \in 1..n /\ g[k] # i
  BY <1>1
<1>8. ASSUME NEW k \in 1..(n - 1)
      PROVE  r[k] = s[g[k]]
  <2>1. k \in 1..(Len(a) + Len(b)) /\ Len(a) = i - 1
    BY <1>1, <1>2, <1>3
  <2>2. CASE k < i
    <3>1. k \in 1..(i - 1) /\ k <= Len(a) /\ g[k] = k
      BY <1>1, <1>2, <2>2
    <3> QED
      BY <1>2, <1>4, <1>5, <2>1, <3>1
  <2>3. CASE ~(k < i)
    <3>1. k - (i - 1) \in 1..(n - i) /\ ~(k <= Len(a)) /\ g[k] = k + 1 /\ i + (k - (i - 1)) = k + 1
      BY <1>1, <1>2, <2>3
    <3>2. r[k] = b[k - (i - 1)]
      BY <1>4, <1>5, <2>1, <3>1
    <3>3. b[k - (i - 1)] = s[i + (k - (i - 1))]
      BY <1>3, <3>1
    <3> QED
      BY <3>1, <3>2, <3>3
  <2> QED
    BY <2>2, <2>3
<1>9. /\ \A j, k \in 1..(n - 1) : j < k => g[j] < g[k]
      /\ \A j, k \in 1..(n - 1) : g[j] = g[k] => j = k
  BY <1>1
<1>10. \A j \in 1..n : j = i \/ \E k \in 1..(n - 1) : g[k] = j
  <2> SUFFICES ASSUME NEW j \in 1..n, j # i
               PROVE  \E k \in 1..(n - 1) : g[k] = j
    OBVIOUS
  <2>1. CASE j < i
    <3>1. j \in 1..(n - 1) /\ g[j] = j
      BY <1>1, <2>1
    <3> QED
      BY <3>1
  <2>2. CASE ~(j < i)
    <3>1. j - 1 \in 1..(n - 1) /\ g[j - 1] = j
      BY <1>1, <2>2
    <3> QED
      BY <3>1
  <2> QED
    BY <2>1, <2>2
<1>11. g \in [1..(n - 1) -> 1..n]
  BY <1>7
<1> HIDE DEF g
<1>12. Embeds(r, s, g)
  BY <1>1, <1>6, <1>8, <1>9, <1>11 DEF Embeds
<1> QED
  BY <1>1, <1>6, <1>7, <1>10, <1>12 DEF r

(* What a cancellation leaves is the queue of the other conversations.      *)
LEMMA Cancelled ==
    ASSUME TypeOK, CancelPrompt
    PROVE  \E g : /\ Embeds(pending_tool_invocations', pending_tool_invocations, g)
                  /\ \A j \in DOMAIN pending_tool_invocations :
                        pending_tool_invocations[j].conv # Default =>
                            \E a \in DOMAIN pending_tool_invocations' : g[a] = j
<1> DEFINE S == {k \in DOMAIN pending_tool_invocations :
                    pending_tool_invocations[k].conv # Default}
           n == Cardinality(S)
<1>1. PICK f \in [1..n -> S] :
          /\ \A j, k \in 1..n : j < k => f[j] < f[k]
          /\ pending_tool_invocations' = [k \in DOMAIN f |-> pending_tool_invocations[f[k]]]
  BY DEF CancelPrompt, Increasing
<1>2. n \in Nat /\ IsFiniteSet(S) /\ S \subseteq Nat /\ S \subseteq DOMAIN pending_tool_invocations
  <2>1. pending_tool_invocations \in Seq(Entry)
    BY DEF TypeOK
  <2>2. Len(pending_tool_invocations) \in Nat /\ S \subseteq 1..Len(pending_tool_invocations)
    BY <2>1
  <2> HIDE DEF S
  <2>3. IsFiniteSet(1..Len(pending_tool_invocations))
    BY <2>2, FS_Interval
  <2>4. IsFiniteSet(S) /\ Cardinality(S) \in Nat
    BY <2>2, <2>3, FS_Subset, FS_CardinalityType
  <2>5. S \subseteq Nat
    BY <2>2
  <2>6. S \subseteq DOMAIN pending_tool_invocations
    BY DEF S
  <2> QED
    BY <2>4, <2>5, <2>6
<1>3. \A j \in DOMAIN pending_tool_invocations :
          pending_tool_invocations[j].conv # Default => j \in S
  OBVIOUS
<1> DEFINE Q == pending_tool_invocations
           P == pending_tool_invocations'
<1>4. DOMAIN P = 1..n /\ \A k \in 1..n : P[k] = Q[f[k]]
  BY <1>1
<1> HIDE DEF S, n
<1>5. \A j, k \in 1..n : f[j] = f[k] => j = k
  <2> SUFFICES ASSUME NEW j \in 1..n, NEW k \in 1..n, f[j] = f[k], j # k
               PROVE  FALSE
    OBVIOUS
  <2>1. j < k \/ k < j
    BY <1>2
  <2>2. f[j] < f[k] \/ f[k] < f[j]
    BY <1>1, <2>1
  <2>3. f[j] \in Nat /\ f[k] \in Nat
    BY <1>1, <1>2
  <2> QED
    BY <2>2, <2>3
<1>6. \A j \in S : \E k \in 1..n : f[k] = j
  <2>1. f \in Injection(1..n, S)
    BY <1>1, <1>5 DEF Injection, IsInjective
  <2>2. Cardinality(1..n) = n
    BY <1>2, FS_Interval
  <2>3. f \in Surjection(1..n, S)
    BY <1>2, <2>1, <2>2, FS_Injection DEF n
  <2> QED
    BY <2>3 DEF Surjection
<1>7. Embeds(P, Q, f)
  BY <1>1, <1>2, <1>4, <1>5 DEF Embeds
<1>8. \A j \in DOMAIN Q : Q[j].conv # Default => \E a \in DOMAIN P : f[a] = j
  BY <1>3, <1>4, <1>6
<1> QED
  BY <1>7, <1>8

(* Where the items of two sequences are when they are joined. *)
LEMMA Joined ==
    ASSUME NEW S, NEW T, NEW a \in Seq(S), NEW b \in Seq(T)
    PROVE  /\ Len(a) \in Nat /\ DOMAIN a = 1..Len(a)
           /\ Len(b) \in Nat /\ DOMAIN b = 1..Len(b)
           /\ DOMAIN (a \o b) = 1..(Len(a) + Len(b))
           /\ \A j \in 1..Len(a) : j \in DOMAIN (a \o b) /\ (a \o b)[j] = a[j]
           /\ \A j \in 1..Len(b) : Len(a) + j \in DOMAIN (a \o b) /\ (a \o b)[Len(a) + j] = b[j]
           /\ \A i \in DOMAIN (a \o b) : i \in 1..Len(a) \/ \E j \in 1..Len(b) : i = Len(a) + j
<1> DEFINE m == Len(a)
           n == Len(b)
           w == a \o b
<1>1. /\ m \in Nat /\ DOMAIN a = 1..m
      /\ n \in Nat /\ DOMAIN b = 1..n
      /\ DOMAIN w = 1..(m + n)
  OBVIOUS
<1>2. \A j \in 1..(m + n) : w[j] = IF j <= m THEN a[j] ELSE b[j - m]
  OBVIOUS
<1> HIDE DEF m, n, w
<1>3. \A j \in 1..m : j \in DOMAIN w /\ w[j] = a[j]
  BY <1>1, <1>2
<1>4. \A j \in 1..n : m + j \in DOMAIN w /\ w[m + j] = b[j]
  <2> SUFFICES ASSUME NEW j \in 1..n
               PROVE  m + j \in DOMAIN w /\ w[m + j] = b[j]
    OBVIOUS
  <2>1. m + j \in 1..(m + n) /\ ~(m + j <= m) /\ (m + j) - m = j
    BY <1>1
  <2> QED
    BY <1>1, <1>2, <2>1
<1>5. \A i \in DOMAIN w : i \in 1..m \/ \E j \in 1..n : i = m + j
  <2> SUFFICES ASSUME NEW i \in 1..(m + n), i \notin 1..m
               PROVE  \E j \in 1..n : i = m + j
    BY <1>1
  <2>1. i - m \in 1..n /\ i = m + (i - m)
    BY <1>1
  <2> QED
    BY <2>1
<1> QED
  BY <1>1, <1>3, <1>4, <1>5 DEF m, n, w

-----------------------------------------------------------------------------
(* Every call is answered once: CallsInv, one lemma per kind of step. *)

(* What is in the queue, the stack and the histories. *)
LEMMA QueueTypes ==
    ASSUME TypeOK
    PROVE  /\ \A k \in DOMAIN pending_tool_invocations :
                 /\ pending_tool_invocations[k].call \in Calls
                 /\ pending_tool_invocations[k].conv \in Convs
                 /\ pending_tool_invocations[k].kind \in {"pure", "mutating"}
           /\ \A m \in DOMAIN emitted : emitted[m].call \in Calls /\ emitted[m].conv \in Convs
           /\ pending_tool_invocations \in Seq(Entry)
           /\ work \in Seq(Step)
           /\ started \in Seq(Calls)
<1>1. /\ pending_tool_invocations \in Seq(Entry) /\ work \in Seq(Step) /\ started \in Seq(Calls)
      /\ emitted \in Seq([conv : Convs, call : Calls])
  BY DEF TypeOK
<1>2. \A k \in DOMAIN pending_tool_invocations : pending_tool_invocations[k] \in Entry
  <2> HIDE DEF Entry
  <2> QED
    BY <1>1
<1>3. \A m \in DOMAIN emitted : emitted[m] \in [conv : Convs, call : Calls]
  <2> DEFINE R == [conv : Convs, call : Calls]
  <2>1. emitted \in Seq(R)
    BY <1>1
  <2> HIDE DEF R
  <2>2. \A m \in DOMAIN emitted : emitted[m] \in R
    BY <2>1
  <2> QED
    BY <2>2 DEF R
<1>4. \A x \in Entry : x.call \in Calls /\ x.conv \in Convs /\ x.kind \in {"pure", "mutating"}
  BY DEF Entry
<1>5. \A x \in [conv : Convs, call : Calls] : x.call \in Calls /\ x.conv \in Convs
  OBVIOUS
<1> QED
  BY <1>1, <1>2, <1>3, <1>4, <1>5

(* A call of which a step changes nothing stays as it should be.            *)
LEMMA TrackedKept ==
    ASSUME NEW d \in Calls, Tracked(d),
           answers'[d] = answers[d],
           tool_conversations'[d] = tool_conversations[d],
           pending_tool_providers'[d] = pending_tool_providers[d],
           in_flight_tool_kinds'[d] = in_flight_tool_kinds[d],
           d \in requested' <=> d \in requested,
           At(work', "clear", d) <=> At(work, "clear", d),
           At(work', "fail", d) => At(work, "fail", d),
           At(work, "done", d) => At(work', "done", d)
    PROVE  Tracked(d)'
BY DEF Tracked

(* A step of no call is taken off the stack, or a turn goes on.             *)
LEMMA CallsQuiet ==
    ASSUME IInv, CallsInv, NEW op \in {"drain", "turn", "gone"}, NextIs(op), work' = Tail(work),
           UNCHANGED <<pending_tool_invocations, tracking, answers, requested, emitted, fresh, started>>
    PROVE  CallsInv'
<1>1. work \in Seq(Step) /\ work # <<>> /\ Stack(work) /\ Head(work).op = op
  BY QueueTypes DEF IInv, CallsInv, NextIs
<1>2. /\ Stack(work')
      /\ \A o, d : At(work', o, d) => At(work, o, d)
      /\ \A o, d : o # op /\ At(work, o, d) => At(work', o, d)
  BY <1>1, Popped
<1>3. \A d \in Calls : Tracked(d)'
  <2> SUFFICES ASSUME NEW d \in Calls PROVE Tracked(d)'
    OBVIOUS
  <2>1. /\ At(work', "clear", d) <=> At(work, "clear", d)
        /\ At(work', "fail", d) => At(work, "fail", d)
        /\ At(work, "done", d) => At(work', "done", d)
    BY <1>2
  <2>2. Tracked(d)
    BY DEF CallsInv
  <2> QED
    BY <2>1, <2>2, TrackedKept DEF tracking
<1>4. FailInv'
  BY <1>2 DEF CallsInv, FailInv
<1>5. QueueInv' /\ FreshInv'
  BY DEF CallsInv, QueueInv, FreshInv, tracking
<1> QED
  BY <1>2, <1>3, <1>4, <1>5 DEF CallsInv

(* A frame that touches neither the tables nor the queue. *)
LEMMA CallsSame ==
    ASSUME CallsInv,
           UNCHANGED <<work, pending_tool_invocations, tracking, answers, requested, emitted, fresh,
                       started>>
    PROVE  CallsInv'
BY DEF CallsInv, QueueInv, FreshInv, FailInv, Tracked, tracking

(* A call that completed no longer runs: the first step of its completion. *)
LEMMA CallsDone ==
    ASSUME IInv, CallsInv, Done
    PROVE  CallsInv'
<1> DEFINE c == Head(work).call
<1>1. /\ work \in Seq(Step) /\ work # <<>> /\ Stack(work) /\ Head(work).op = "done"
      /\ c \in Calls
      /\ work' = Tail(work)
      /\ in_flight_tool_kinds' = [in_flight_tool_kinds EXCEPT ![c] = "none"]
      /\ UNCHANGED <<pending_tool_invocations, tool_conversations, pending_tool_providers, answers,
                     requested, emitted, fresh, started>>
  BY QueueTypes, TopOfStack DEF IInv, CallsInv, NextIs, Done, outside, history
<1>2. /\ Stack(work')
      /\ \A o, d : At(work', o, d) => At(work, o, d)
      /\ \A o, d : At(work, o, d) => At(work', o, d) \/ (o = "done" /\ d = c)
      /\ At(work', "clear", c)
  BY <1>1, Popped
<1> HIDE DEF c
<1>3. \A d \in Calls : Tracked(d)'
  <2> SUFFICES ASSUME NEW d \in Calls PROVE Tracked(d)'
    OBVIOUS
  <2>1. Tracked(d)
    BY DEF CallsInv
  <2>2. /\ At(work', "clear", d) <=> At(work, "clear", d)
        /\ At(work', "fail", d) => At(work, "fail", d)
    BY <1>2
  <2>3. CASE d # c
    <3>1. in_flight_tool_kinds'[d] = in_flight_tool_kinds[d] /\ (At(work, "done", d) => At(work', "done", d))
      BY <1>1, <1>2, <2>3 DEF IInv, TypeOK
    <3> QED
      BY <1>1, <2>1, <2>2, <3>1, TrackedKept
  <2>4. CASE d = c
    <3>1. in_flight_tool_kinds'[d] = "none"
      BY <1>1, <2>4 DEF IInv, TypeOK
    <3> QED
      BY <1>1, <1>2, <2>1, <2>2, <2>4, <3>1 DEF Tracked
  <2> QED
    BY <2>3, <2>4
<1>4. FailInv' /\ QueueInv' /\ FreshInv'
  BY <1>1, <1>2 DEF CallsInv, FailInv, QueueInv, FreshInv
<1> QED
  BY <1>2, <1>3, <1>4 DEF CallsInv

(* The last step of a completion: the call is not tracked any more. *)
LEMMA CallsClear ==
    ASSUME IInv, CallsInv, ClearTracking
    PROVE  CallsInv'
<1> DEFINE c == Head(work).call
<1>1. /\ work \in Seq(Step) /\ work # <<>> /\ Stack(work) /\ Head(work).op = "clear"
      /\ c \in Calls
      /\ work' = Tail(work)
      /\ tool_conversations' = [tool_conversations EXCEPT ![c] = None]
      /\ pending_tool_providers' = [pending_tool_providers EXCEPT ![c] = None]
      /\ UNCHANGED <<pending_tool_invocations, in_flight_tool_kinds, answers,
                     requested, emitted, fresh, started>>
  BY QueueTypes, TopOfStack DEF IInv, CallsInv, NextIs, ClearTracking, outside, history
<1>2. /\ Stack(work')
      /\ \A o, d : At(work', o, d) => At(work, o, d)
      /\ \A o, d : At(work, o, d) => At(work', o, d) \/ (o = "clear" /\ d = c)
      /\ ~At(work', "clear", c)
      /\ At(work, "clear", c)
  <2>1. At(work, "clear", c)
    <3>1. 1 \in DOMAIN work /\ work[1] = Head(work)
      BY <1>1
    <3> QED
      BY <1>1, <3>1 DEF At
  <2> QED
    BY <1>1, <2>1, Popped
<1> HIDE DEF c
<1>3. \A d \in Calls : Tracked(d)'
  <2> SUFFICES ASSUME NEW d \in Calls PROVE Tracked(d)'
    OBVIOUS
  <2>1. Tracked(d)
    BY DEF CallsInv
  <2>2. CASE d # c
    <3>1. /\ At(work', "clear", d) <=> At(work, "clear", d)
          /\ At(work', "fail", d) => At(work, "fail", d)
          /\ At(work, "done", d) => At(work', "done", d)
          /\ tool_conversations'[d] = tool_conversations[d]
          /\ pending_tool_providers'[d] = pending_tool_providers[d]
      BY <1>1, <1>2, <2>2 DEF IInv, TypeOK
    <3> QED
      BY <1>1, <2>1, <3>1, TrackedKept
  <2>3. CASE d = c
    <3>1. tool_conversations'[d] = None /\ pending_tool_providers'[d] = None
      BY <1>1, <2>3 DEF IInv, TypeOK
    <3>2. answers[d] = 1 /\ ~At(work, "fail", d)
      BY <1>2, <2>1, <2>3 DEF Tracked
    <3> QED
      BY <1>1, <1>2, <2>1, <2>3, <3>1, <3>2 DEF Tracked
  <2> QED
    BY <2>2, <2>3
<1>4. FailInv'
  BY <1>1, <1>2 DEF CallsInv, FailInv
<1>5. \A d \in Calls : tool_conversations[d] = None => tool_conversations'[d] = None
  BY <1>1 DEF IInv, TypeOK
<1>6. QueueInv' /\ FreshInv'
  <2>1. QueueInv'
    BY <1>1, <1>5, QueueTypes DEF IInv, CallsInv, QueueInv
  <2>2. FreshInv'
    BY <1>1, <1>5 DEF IInv, TypeOK, CallsInv, FreshInv
  <2> QED
    BY <2>1, <2>2
<1> QED
  BY <1>2, <1>3, <1>4, <1>6 DEF CallsInv

(* A call that is answered, by its provider or for it: what follows is put   *)
(* on the stack.                                                           *)
LEMMA CallsAnswered ==
    ASSUME IInv, CallsInv, NEW c \in Calls, NEW w \in Seq(Step), Stack(w),
           answers[c] = 0,
           \A o, d : At(w, o, d) => At(work, o, d),
           \A o, d : At(work, o, d) => At(w, o, d) \/ o \notin {"done", "turn", "clear"},
           ~At(w, "fail", c),
           work' = Completion(c) \o w,
           answers' = [answers EXCEPT ![c] = @ + 1],
           \A k \in DOMAIN pending_tool_invocations : pending_tool_invocations[k].call # c,
           c \notin fresh,
           UNCHANGED <<pending_tool_invocations, tracking, requested, emitted, fresh, started>>
    PROVE  CallsInv'
<1>1. /\ answers'[c] = 1
      /\ \A d \in Calls : d # c => answers'[d] = answers[d]
  BY DEF IInv, TypeOK
<1>2. ~At(work, "clear", c) /\ ~At(w, "clear", c)
  BY DEF CallsInv, Tracked
<1>3. /\ Stack(work')
      /\ \A o, e : At(work', o, e) <=>
            \/ At(w, o, e)
            \/ o = "drain" /\ e = None
            \/ o \in {"done", "turn", "clear"} /\ e = c
  BY <1>2, Pushed
<1>4. \A d \in Calls : Tracked(d)'
  <2> SUFFICES ASSUME NEW d \in Calls PROVE Tracked(d)'
    OBVIOUS
  <2>1. Tracked(d)
    BY DEF CallsInv
  <2>2. CASE d # c
    <3>1. /\ At(work', "clear", d) <=> At(work, "clear", d)
          /\ At(work', "fail", d) => At(work, "fail", d)
          /\ At(work, "done", d) => At(work', "done", d)
      BY <1>3, <2>2
    <3> QED
      BY <1>1, <2>1, <2>2, <3>1, TrackedKept DEF tracking
  <2>3. CASE d = c
    <3>1. At(work', "clear", d) /\ At(work', "done", d) /\ ~At(work', "fail", d)
      BY <1>3, <2>3
    <3> QED
      BY <1>1, <2>1, <2>3, <3>1 DEF Tracked, tracking
  <2> QED
    BY <2>2, <2>3
<1>5. FailInv'
  BY <1>3 DEF CallsInv, FailInv
<1>6. QueueInv'
  <2>1. \A k \in DOMAIN pending_tool_invocations :
            answers'[pending_tool_invocations[k].call] = answers[pending_tool_invocations[k].call]
    BY <1>1, QueueTypes DEF IInv
  <2> QED
    BY <2>1 DEF CallsInv, QueueInv, tracking
<1>7. FreshInv'
  <2>1. \A d \in fresh : answers'[d] = answers[d]
    BY <1>1 DEF IInv, TypeOK
  <2> QED
    BY <2>1 DEF CallsInv, FreshInv, tracking
<1> QED
  BY <1>3, <1>4, <1>5, <1>6, <1>7 DEF CallsInv

(* The queue without the call that starts. *)
LEMMA StartQueue ==
    ASSUME TypeOK, NEW k \in DOMAIN pending_tool_invocations, Start(k)
    PROVE  \E g : /\ Embeds(pending_tool_invocations', pending_tool_invocations, g)
                  /\ \A a \in DOMAIN pending_tool_invocations' : g[a] # k
                  /\ \A j \in DOMAIN pending_tool_invocations :
                        j = k \/ \E a \in DOMAIN pending_tool_invocations' : g[a] = j
<1>1. pending_tool_invocations' = RemoveAt(pending_tool_invocations, k)
  BY DEF Start
<1> QED
  BY <1>1, QueueTypes, Removed

(* A call taken from the queue: it is tracked and in flight, and either sent *)
(* to a provider or answered at once.                                      *)
LEMMA StartEffect ==
    ASSUME IInv, CallsInv, NextIs("drain"), NEW k \in DOMAIN pending_tool_invocations, Start(k),
           NEW x, x = pending_tool_invocations[k], NEW c, c = x.call
    PROVE  /\ c \in Calls /\ x.conv \in Convs /\ x.conv # None /\ x.kind \in {"pure", "mutating"}
           /\ answers[c] = 0 /\ tool_conversations[c] = None /\ c \notin requested /\ c \notin fresh
           /\ ~At(work, "fail", c) /\ ~At(work, "clear", c)
           /\ started' = Append(started, c)
           /\ UNCHANGED <<turns, requested, emitted, fresh>>
           /\ \A d \in Calls : d # c =>
                 /\ in_flight_tool_kinds'[d] = in_flight_tool_kinds[d]
                 /\ tool_conversations'[d] = tool_conversations[d]
                 /\ pending_tool_providers'[d] = pending_tool_providers[d]
                 /\ answers'[d] = answers[d]
           /\ in_flight_tool_kinds'[c] = x.kind
           /\ tool_conversations'[c] = x.conv
           /\ Stack(work')
           /\ \A o, e : At(work, o, e) => At(work', o, e)
           /\ \A o, e : o \notin {"drain"} /\ ~(o \in {"done", "turn", "clear"} /\ e = c) =>
                 (At(work', o, e) <=> At(work, o, e))
           /\ \/ answers'[c] = 0 /\ pending_tool_providers'[c] \in Conns /\ ~At(work', "clear", c)
              \/ answers'[c] = 1 /\ At(work', "clear", c) /\ At(work', "done", c)
<1> DEFINE p == Head(providers_by_tool[ToolOf[c]])
<1>1. /\ c \in Calls /\ x.conv \in Convs /\ x.conv # None
      /\ x.kind \in {"pure", "mutating"}
      /\ work \in Seq(Step) /\ started \in Seq(Calls) /\ Stack(work)
  BY QueueTypes, ToolSchedulerAssumption DEF IInv, CallsInv
<1>2. /\ answers[c] = 0 /\ tool_conversations[c] = None /\ c \notin requested /\ c \notin fresh
      /\ ~At(work, "fail", c) /\ ~At(work, "clear", c)
      /\ ~At(work, "done", c)
  <2>1. answers[c] = 0 /\ tool_conversations[c] = None /\ c \notin requested /\ c \notin fresh
    BY DEF IInv, FreshIsUnused, CallsInv, QueueInv
  <2>2. ~At(work, "fail", c)
    BY DEF CallsInv, FailInv
  <2>3. ~At(work, "clear", c)
    BY <1>1, <2>1 DEF CallsInv, Tracked
  <2> QED
    BY <1>1, <2>1, <2>2, <2>3, StackFacts
<1>3. /\ in_flight_tool_kinds' = [in_flight_tool_kinds EXCEPT ![c] = x.kind]
      /\ tool_conversations' = [tool_conversations EXCEPT ![c] = x.conv]
      /\ started' = Append(started, c)
      /\ UNCHANGED <<turns, requested, emitted, fresh>>
  BY DEF Start
<1>4. \/ /\ pending_tool_providers' = [pending_tool_providers EXCEPT ![c] = p]
         /\ p \in Conns
         /\ work' = work /\ answers' = answers
      \/ /\ answers' = [answers EXCEPT ![c] = @ + 1]
         /\ work' = Completion(c) \o work
         /\ pending_tool_providers' = pending_tool_providers
  <2>1. HasProvider(ToolOf[c]) => p \in Conns
    <3>1. providers_by_tool[ToolOf[c]] \in Seq(Conns)
      BY <1>1, ToolSchedulerAssumption DEF IInv, TypeOK
    <3> QED
      BY <3>1 DEF HasProvider
  <2> QED
    BY <2>1 DEF Start
<1>6. /\ \A d \in Calls : d # c =>
            /\ in_flight_tool_kinds'[d] = in_flight_tool_kinds[d]
            /\ tool_conversations'[d] = tool_conversations[d]
            /\ pending_tool_providers'[d] = pending_tool_providers[d]
            /\ answers'[d] = answers[d]
      /\ in_flight_tool_kinds'[c] = x.kind
      /\ tool_conversations'[c] = x.conv
  <2>1. /\ in_flight_tool_kinds'[c] = x.kind
        /\ tool_conversations'[c] = x.conv
        /\ \A d \in Calls : d # c =>
              /\ in_flight_tool_kinds'[d] = in_flight_tool_kinds[d]
              /\ tool_conversations'[d] = tool_conversations[d]
    <3> QED
      BY <1>1, <1>3 DEF IInv, TypeOK
  <2>2. \A d \in Calls : d # c => /\ pending_tool_providers'[d] = pending_tool_providers[d]
                                  /\ answers'[d] = answers[d]
    <3> HIDE DEF p
    <3> QED
      BY <1>1, <1>4 DEF IInv, TypeOK
  <2> QED
    BY <2>1, <2>2
<1>7. \/ /\ answers'[c] = 0 /\ pending_tool_providers'[c] \in Conns /\ work' = work
      \/ /\ answers'[c] = 1 /\ pending_tool_providers'[c] = pending_tool_providers[c]
         /\ work' = Completion(c) \o work
  <2> HIDE DEF p
  <2> QED
    BY <1>1, <1>2, <1>4 DEF IInv, TypeOK
<1>8. /\ Stack(work')
      /\ \A o, e : At(work, o, e) => At(work', o, e)
      /\ \A o, e : o \notin {"drain"} /\ ~(o \in {"done", "turn", "clear"} /\ e = c) =>
            (At(work', o, e) <=> At(work, o, e))
      /\ \/ answers'[c] = 0 /\ pending_tool_providers'[c] \in Conns /\ ~At(work', "clear", c)
         \/ answers'[c] = 1 /\ At(work', "clear", c) /\ At(work', "done", c)
  <2> HIDE DEF Step
  <2>1. CASE work' = Completion(c) \o work /\ answers'[c] = 1
    BY <1>1, <1>2, <2>1, Pushed
  <2>2. CASE work' = work /\ answers'[c] = 0 /\ pending_tool_providers'[c] \in Conns
    BY <1>1, <1>2, <2>2
  <2> QED
    BY <1>7, <2>1, <2>2
<1> HIDE DEF p
<1> QED
  BY <1>1, <1>2, <1>3, <1>6, <1>8

(* A call that starts leaves the queue, and is tracked. *)
LEMMA CallsStart ==
    ASSUME IInv, CallsInv, NextIs("drain"), NEW k \in DOMAIN pending_tool_invocations, Start(k)
    PROVE  CallsInv'
<1> DEFINE x == pending_tool_invocations[k]
           c == x.call
<1>1. /\ c \in Calls /\ x.conv \in Convs /\ x.conv # None /\ x.kind \in {"pure", "mutating"}
      /\ started \in Seq(Calls)
  BY StartEffect, QueueTypes DEF IInv
<1>2. /\ answers[c] = 0 /\ tool_conversations[c] = None /\ c \notin requested /\ c \notin fresh
      /\ ~At(work, "fail", c) /\ ~At(work, "clear", c)
  BY StartEffect
<1>3. started' = Append(started, c) /\ UNCHANGED <<requested, emitted, fresh>>
  BY StartEffect
<1>5. PICK g : /\ Embeds(pending_tool_invocations', pending_tool_invocations, g)
               /\ \A a \in DOMAIN pending_tool_invocations' : g[a] # k
  BY StartQueue DEF IInv
<1>6. /\ \A d \in Calls : d # c =>
            /\ in_flight_tool_kinds'[d] = in_flight_tool_kinds[d]
            /\ tool_conversations'[d] = tool_conversations[d]
            /\ pending_tool_providers'[d] = pending_tool_providers[d]
            /\ answers'[d] = answers[d]
      /\ in_flight_tool_kinds'[c] = x.kind
      /\ tool_conversations'[c] = x.conv
  BY StartEffect
<1>8. /\ Stack(work')
      /\ \A o, e : o \notin {"drain"} /\ ~(o \in {"done", "turn", "clear"} /\ e = c) =>
            (At(work', o, e) <=> At(work, o, e))
      /\ \/ answers'[c] = 0 /\ pending_tool_providers'[c] \in Conns /\ ~At(work', "clear", c)
         \/ answers'[c] = 1 /\ At(work', "clear", c) /\ At(work', "done", c)
  BY StartEffect
<1>9. \A d \in Calls : Tracked(d)'
  <2> SUFFICES ASSUME NEW d \in Calls PROVE Tracked(d)'
    OBVIOUS
  <2>1. Tracked(d)
    BY DEF CallsInv
  <2> HIDE DEF x, c
  <2>2. CASE d # c
    <3>1. /\ At(work', "clear", d) <=> At(work, "clear", d)
          /\ At(work', "fail", d) => At(work, "fail", d)
          /\ At(work, "done", d) => At(work', "done", d)
      BY <1>8, <2>2
    <3> QED
      BY <1>3, <1>6, <2>1, <2>2, <3>1, TrackedKept
  <2>3. CASE d = c
    <3>1. ~At(work', "fail", d)
      BY <1>2, <1>8, <2>3
    <3>2. \A v \in Conns : v # None
      BY ToolSchedulerAssumption
    <3>3. /\ tool_conversations'[d] # None /\ in_flight_tool_kinds'[d] # "none" /\ d \notin requested'
      BY <1>1, <1>2, <1>3, <1>6, <2>3
    <3> QED
      BY <1>8, <2>3, <3>1, <3>2, <3>3 DEF Tracked
  <2> QED
    BY <2>2, <2>3
<1>10. \A a \in DOMAIN pending_tool_invocations' :
          /\ g[a] \in DOMAIN pending_tool_invocations
          /\ pending_tool_invocations'[a] = pending_tool_invocations[g[a]]
          /\ pending_tool_invocations[g[a]].call # c
          /\ pending_tool_invocations[g[a]].call \in Calls
  BY <1>5, QueueTypes DEF Embeds, IInv, CallsInv, QueueInv
<1>11. \A a, b \in DOMAIN pending_tool_invocations' : g[a] = g[b] => a = b
  BY <1>5 DEF Embeds
<1> HIDE DEF x, c
<1>12. QueueInv'
  <2>1. \A j, l \in DOMAIN pending_tool_invocations :
            pending_tool_invocations[j].call = pending_tool_invocations[l].call => j = l
    BY DEF CallsInv, QueueInv
  <2>2. \A a, b \in DOMAIN pending_tool_invocations' :
            pending_tool_invocations'[a].call = pending_tool_invocations'[b].call => a = b
    BY <1>10, <1>11, <2>1
  <2>3. ASSUME NEW a \in DOMAIN pending_tool_invocations'
        PROVE  /\ answers'[pending_tool_invocations'[a].call] = 0
               /\ tool_conversations'[pending_tool_invocations'[a].call] = None
               /\ pending_tool_invocations'[a].call \notin requested'
               /\ \E m \in DOMAIN emitted' :
                     /\ emitted'[m].call = pending_tool_invocations'[a].call
                     /\ emitted'[m].conv = pending_tool_invocations'[a].conv
    <3> DEFINE y == pending_tool_invocations[g[a]]
    <3>1. /\ answers[y.call] = 0
          /\ tool_conversations[y.call] = None
          /\ y.call \notin requested
          /\ \E m \in DOMAIN emitted : emitted[m].call = y.call /\ emitted[m].conv = y.conv
      BY <1>10 DEF CallsInv, QueueInv
    <3>2. pending_tool_invocations'[a] = y /\ y.call \in Calls /\ y.call # c
      BY <1>10
    <3> HIDE DEF y
    <3> QED
      BY <1>3, <1>6, <3>1, <3>2
  <2> QED
    BY <2>2, <2>3 DEF QueueInv
<1>13. FreshInv'
  <2>1. \A d \in fresh : d # c /\ d \in Calls
    BY <1>2 DEF IInv, TypeOK
  <2>2. \A j \in DOMAIN started' : (j \in DOMAIN started /\ started'[j] = started[j]) \/ started'[j] = c
    BY <1>1, <1>3
  <2> QED
    BY <1>3, <1>6, <2>1, <2>2 DEF CallsInv, FreshInv
<1>14. FailInv'
  <2>1. \A o : At(work', "fail", o) => At(work, "fail", o)
    BY <1>8
  <2> QED
    BY <1>3, <1>10, <2>1 DEF CallsInv, FailInv
<1> QED
  BY <1>8, <1>9, <1>12, <1>13, <1>14 DEF CallsInv

(* A disconnect fails a call that had no answer yet. *)
LEMMA CallsFail ==
    ASSUME IInv, CallsInv, FailCall
    PROVE  CallsInv'
<1> DEFINE c == Head(work).call
           w == Tail(work)
<1>1. /\ work \in Seq(Step) /\ work # <<>> /\ Stack(work) /\ Head(work).op = "fail"
      /\ c \in Calls
      /\ w \in Seq(Step)
      /\ answers' = [answers EXCEPT ![c] = @ + 1]
      /\ work' = Completion(c) \o w
      /\ UNCHANGED <<pending_tool_invocations, tracking, requested, emitted, fresh, started>>
  BY QueueTypes, TopOfStack DEF IInv, CallsInv, NextIs, FailCall, outside
<1>2. /\ Stack(w)
      /\ \A o, d : At(w, o, d) => At(work, o, d)
      /\ \A o, d : At(work, o, d) => At(w, o, d) \/ (o = "fail" /\ d = c)
      /\ ~At(w, "fail", c)
      /\ At(work, "fail", c)
  <2>1. At(work, "fail", c)
    <3>1. 1 \in DOMAIN work /\ work[1] = Head(work)
      BY <1>1
    <3> QED
      BY <1>1, <3>1 DEF At
  <2> QED
    BY <1>1, <2>1, Popped
<1> HIDE DEF c, w
<1>3. answers[c] = 0 /\ \A k \in DOMAIN pending_tool_invocations : pending_tool_invocations[k].call # c
  BY <1>1, <1>2 DEF CallsInv, Tracked, FailInv
<1>4. c \notin fresh
  BY <1>2 DEF CallsInv, FailInv
<1> QED
  BY <1>1, <1>2, <1>3, <1>4, CallsAnswered

(* The calls of a response: at the end of the queue and of what was emitted, *)
(* none of them seen before.                                               *)
LEMMA RespondEffect ==
    ASSUME IInv, CallsInv, NEW q \in Convs, NEW s \in Responses, RespondWithCalls(q, s)
    PROVE  LET Q == pending_tool_invocations
               E == emitted
               l == Len(Q)
               e == Len(E)
               n == Len(s)
           IN  /\ n \in Nat \ {0} /\ DOMAIN s = 1..n /\ ToSet(s) = {s[k] : k \in 1..n}
               /\ \A k \in 1..n : s[k] \in fresh /\ s[k] \in Calls
               /\ \A j, k \in 1..n : s[j] = s[k] => j = k
               /\ fresh' = fresh \ ToSet(s)
               /\ turn_state[q] = "thinking"
               /\ turn_state' = [turn_state EXCEPT ![q] = "tools"]
               /\ remaining_calls' = [remaining_calls EXCEPT ![q] = ToSet(s)]
               /\ work = <<>> /\ work' = <<Do("drain", None)>>
               /\ UNCHANGED <<tracking, answers, requested, started>>
               /\ l \in Nat /\ DOMAIN Q = 1..l
               /\ \A j \in 1..l : j \in DOMAIN pending_tool_invocations' /\ pending_tool_invocations'[j] = Q[j]
               /\ \A j \in 1..n : /\ l + j \in DOMAIN pending_tool_invocations'
                                  /\ pending_tool_invocations'[l + j].call = s[j]
                                  /\ pending_tool_invocations'[l + j].conv = q
               /\ \A i \in DOMAIN pending_tool_invocations' : i \in 1..l \/ \E j \in 1..n : i = l + j
               /\ e \in Nat /\ DOMAIN E = 1..e
               /\ \A j \in 1..e : j \in DOMAIN emitted' /\ emitted'[j] = E[j]
               /\ \A j \in 1..n : /\ e + j \in DOMAIN emitted'
                                  /\ emitted'[e + j].call = s[j]
                                  /\ emitted'[e + j].conv = q
               /\ \A i \in DOMAIN emitted' : i \in 1..e \/ \E j \in 1..n : i = e + j
               /\ \A j \in 1..l : Q[j].call \notin fresh
               /\ \A j \in 1..e : E[j].call \notin fresh
<1> DEFINE added == [k \in DOMAIN s |-> [conv |-> q, call |-> s[k], kind |-> KindOf(s[k])]]
           named == [k \in DOMAIN s |-> [conv |-> q, call |-> s[k]]]
           Q == pending_tool_invocations
           E == emitted
           l == Len(Q)
           e == Len(E)
           n == Len(s)
<1>1. /\ s \in Seq(Calls) /\ DOMAIN s = 1..n /\ n \in Nat
      /\ \A k \in 1..n : s[k] \in fresh /\ s[k] \in Calls
      /\ \A j, k \in 1..n : s[j] = s[k] => j = k
      /\ n # 0
  <2>1. n # 0
    <3>1. PICK i \in 1..MaxCalls : s \in [1..i -> fresh]
      BY DEF Responses
    <3>2. Len(s) = i /\ i \in Nat \ {0}
      BY <3>1, ToolSchedulerAssumption
    <3> QED
      BY <3>2
  <2>2. /\ s \in Seq(Calls) /\ DOMAIN s = 1..n /\ n \in Nat
        /\ \A k \in 1..n : s[k] \in fresh /\ s[k] \in Calls
        /\ \A j, k \in 1..n : s[j] = s[k] => j = k
    BY ResponseTypes DEF IInv, TypeOK
  <2> QED
    BY <2>1, <2>2
<1>2. ToSet(s) = {s[k] : k \in 1..n}
  BY <1>1 DEF ToSet
<1>3. /\ pending_tool_invocations' = Q \o added
      /\ emitted' = E \o named
      /\ fresh' = fresh \ ToSet(s)
      /\ work = <<>> /\ work' = <<Do("drain", None)>>
      /\ UNCHANGED <<tracking, answers, requested, started>>
  BY DEF RespondWithCalls, Idle
<1>4. /\ DOMAIN added = 1..n /\ DOMAIN named = 1..n
      /\ \A k \in 1..n : /\ added[k].call = s[k] /\ added[k].conv = q
                         /\ named[k].call = s[k] /\ named[k].conv = q
  BY <1>1
<1>5. Q \in Seq(Entry) /\ E \in Seq([conv : Convs, call : Calls])
  BY DEF IInv, TypeOK
<1>6. /\ added \in Seq({added[k] : k \in 1..n}) /\ Len(added) = n
      /\ named \in Seq({named[k] : k \in 1..n}) /\ Len(named) = n
  <2>1. added = [k \in 1..n |-> added[k]] /\ named = [k \in 1..n |-> named[k]]
    BY <1>1
  <2> HIDE DEF added, named
  <2>2. added \in Seq({added[k] : k \in 1..n})
    BY <1>1, <2>1
  <2>3. named \in Seq({named[k] : k \in 1..n})
    BY <1>1, <2>1
  <2>4. Len(added) = n
    BY <1>1, <2>1
  <2>5. Len(named) = n
    BY <1>1, <2>1
  <2> QED
    BY <2>2, <2>3, <2>4, <2>5
<1> HIDE DEF Entry, added, named, Q, E, l, e, n
<1>7. /\ l \in Nat /\ DOMAIN Q = 1..l
      /\ \A j \in 1..l : j \in DOMAIN pending_tool_invocations' /\ pending_tool_invocations'[j] = Q[j]
      /\ \A j \in 1..n : /\ l + j \in DOMAIN pending_tool_invocations'
                         /\ pending_tool_invocations'[l + j] = added[j]
      /\ \A i \in DOMAIN pending_tool_invocations' : i \in 1..l \/ \E j \in 1..n : i = l + j
  <2> DEFINE A == {added[k] : k \in 1..n}
  <2>1. added \in Seq(A)
    BY <1>6
  <2> HIDE DEF A
  <2> QED
    BY <1>3, <1>5, <1>6, <2>1, Joined DEF l
<1>8. /\ e \in Nat /\ DOMAIN E = 1..e
      /\ \A j \in 1..e : j \in DOMAIN emitted' /\ emitted'[j] = E[j]
      /\ \A j \in 1..n : e + j \in DOMAIN emitted' /\ emitted'[e + j] = named[j]
      /\ \A i \in DOMAIN emitted' : i \in 1..e \/ \E j \in 1..n : i = e + j
  <2> DEFINE R == [conv : Convs, call : Calls]
  <2>1. E \in Seq(R)
    BY <1>5
  <2> DEFINE A == {named[k] : k \in 1..n}
  <2>2. named \in Seq(A)
    BY <1>6
  <2> HIDE DEF R, A
  <2> QED
    BY <1>3, <1>6, <2>1, <2>2, Joined DEF e
<1>9. /\ \A j \in 1..l : Q[j].call \notin fresh
      /\ \A j \in 1..e : E[j].call \notin fresh
  BY <1>7, <1>8 DEF IInv, FreshIsUnused, CallsInv, FreshInv, Q, E
<1>10. /\ turn_state[q] = "thinking"
       /\ turn_state' = [turn_state EXCEPT ![q] = "tools"]
       /\ remaining_calls' = [remaining_calls EXCEPT ![q] = ToSet(s)]
  BY DEF RespondWithCalls
<1> QED
  BY <1>1, <1>2, <1>3, <1>4, <1>7, <1>8, <1>9, <1>10 DEF Q, E, l, e, n

(* The calls of a response are new: nothing of them has happened. *)
LEMMA CallsRespond ==
    ASSUME IInv, CallsInv, NEW q \in Convs, NEW s \in Responses, RespondWithCalls(q, s)
    PROVE  CallsInv'
<1> DEFINE Q == pending_tool_invocations
           E == emitted
           l == Len(Q)
           e == Len(E)
           n == Len(s)
<1>1. /\ n \in Nat \ {0}
      /\ \A k \in 1..n : s[k] \in fresh /\ s[k] \in Calls
      /\ \A j, k \in 1..n : s[j] = s[k] => j = k
  <2>1. n \in Nat \ {0}
    BY RespondEffect
  <2>2. \A k \in 1..n : s[k] \in fresh /\ s[k] \in Calls
    BY RespondEffect
  <2>3. \A j, k \in 1..n : s[j] = s[k] => j = k
    BY RespondEffect
  <2> QED
    BY <2>1, <2>2, <2>3
<1>2. ToSet(s) = {s[k] : k \in 1..n}
  BY RespondEffect
<1>3. /\ fresh' = fresh \ ToSet(s)
      /\ work = <<>> /\ work' = <<Do("drain", None)>>
      /\ UNCHANGED <<tracking, answers, requested, started>>
  BY RespondEffect
<1>7. /\ l \in Nat /\ DOMAIN Q = 1..l
      /\ \A j \in 1..l : j \in DOMAIN pending_tool_invocations' /\ pending_tool_invocations'[j] = Q[j]
      /\ \A j \in 1..n : /\ l + j \in DOMAIN pending_tool_invocations'
                         /\ pending_tool_invocations'[l + j].call = s[j]
                         /\ pending_tool_invocations'[l + j].conv = q
      /\ \A i \in DOMAIN pending_tool_invocations' : i \in 1..l \/ \E j \in 1..n : i = l + j
  BY RespondEffect
<1>8. /\ e \in Nat /\ DOMAIN E = 1..e
      /\ \A j \in 1..e : j \in DOMAIN emitted' /\ emitted'[j] = E[j]
      /\ \A j \in 1..n : /\ e + j \in DOMAIN emitted'
                         /\ emitted'[e + j].call = s[j]
                         /\ emitted'[e + j].conv = q
      /\ \A i \in DOMAIN emitted' : i \in 1..e \/ \E j \in 1..n : i = e + j
  BY RespondEffect
<1>9. /\ \A j \in 1..l : Q[j].call \notin fresh
      /\ \A j \in 1..e : E[j].call \notin fresh
  BY RespondEffect
<1> HIDE DEF Q, E, l, e, n
<1>10. /\ Stack(work') /\ \A d : ~At(work', "clear", d) /\ ~At(work', "fail", d) /\ ~At(work', "done", d)
       /\ \A d : ~At(work, "clear", d) /\ ~At(work, "fail", d) /\ ~At(work, "done", d)
  BY <1>3, FirstStacks
<1>11. \A d \in Calls : Tracked(d)'
  BY <1>3, <1>10, TrackedKept DEF CallsInv, tracking
<1>12. FailInv'
  BY <1>10 DEF FailInv
<1>13. QueueInv'
  <2>1. ASSUME NEW i \in DOMAIN pending_tool_invocations'
        PROVE  /\ answers'[pending_tool_invocations'[i].call] = 0
               /\ tool_conversations'[pending_tool_invocations'[i].call] = None
               /\ pending_tool_invocations'[i].call \notin requested'
               /\ \E m \in DOMAIN emitted' :
                     /\ emitted'[m].call = pending_tool_invocations'[i].call
                     /\ emitted'[m].conv = pending_tool_invocations'[i].conv
    <3>1. CASE i \in 1..l
      <4>1. pending_tool_invocations'[i] = Q[i]
        BY <1>7, <3>1
      <4>2. /\ answers[Q[i].call] = 0
            /\ tool_conversations[Q[i].call] = None
            /\ Q[i].call \notin requested
            /\ \E m \in 1..e : E[m].call = Q[i].call /\ E[m].conv = Q[i].conv
        BY <1>7, <1>8, <3>1 DEF CallsInv, QueueInv, Q, E
      <4> QED
        BY <1>3, <1>8, <4>1, <4>2 DEF tracking
    <3>2. ASSUME NEW j \in 1..n, i = l + j
          PROVE  /\ answers'[pending_tool_invocations'[i].call] = 0
                 /\ tool_conversations'[pending_tool_invocations'[i].call] = None
                 /\ pending_tool_invocations'[i].call \notin requested'
                 /\ \E m \in DOMAIN emitted' :
                       /\ emitted'[m].call = pending_tool_invocations'[i].call
                       /\ emitted'[m].conv = pending_tool_invocations'[i].conv
      <4>1. pending_tool_invocations'[i].call = s[j] /\ pending_tool_invocations'[i].conv = q
        BY <1>7, <3>2
      <4>2. answers[s[j]] = 0 /\ tool_conversations[s[j]] = None /\ s[j] \notin requested
        BY <1>1 DEF CallsInv, FreshInv
      <4>3. e + j \in DOMAIN emitted' /\ emitted'[e + j].call = s[j] /\ emitted'[e + j].conv = q
        BY <1>8
      <4> QED
        BY <1>3, <4>1, <4>2, <4>3 DEF tracking
    <3> QED
      BY <1>7, <3>1, <3>2
  <2>2. ASSUME NEW i \in DOMAIN pending_tool_invocations', NEW k \in DOMAIN pending_tool_invocations',
               pending_tool_invocations'[i].call = pending_tool_invocations'[k].call
        PROVE  i = k
    <3>1. ASSUME NEW a \in 1..l, NEW b \in 1..l, Q[a].call = Q[b].call
          PROVE  a = b
      BY <1>7, <3>1 DEF CallsInv, QueueInv, Q
    <3>2. ASSUME NEW a \in 1..l, NEW b \in 1..n, Q[a].call = s[b]
          PROVE  FALSE
      BY <1>1, <1>9, <3>2
    <3>3. ASSUME NEW a \in 1..n, NEW b \in 1..n, s[a] = s[b]
          PROVE  a = b
      BY <1>1, <3>3
    <3>4. CASE i \in 1..l /\ k \in 1..l
      BY <1>7, <2>2, <3>1, <3>4
    <3>5. ASSUME NEW a \in 1..n, i = l + a
          PROVE  i = k
      <4>1. pending_tool_invocations'[i].call = s[a]
        BY <1>7, <3>5
      <4>2. CASE k \in 1..l
        BY <1>7, <2>2, <3>2, <4>1, <4>2
      <4>3. ASSUME NEW b \in 1..n, k = l + b
            PROVE  i = k
        <5>1. pending_tool_invocations'[k].call = s[b]
          BY <1>7, <4>3
        <5>2. a = b
          BY <2>2, <3>3, <4>1, <5>1
        <5> QED
          BY <3>5, <4>3, <5>2
      <4> QED
        BY <1>7, <4>2, <4>3
    <3>6. ASSUME i \in 1..l, NEW b \in 1..n, k = l + b
          PROVE  i = k
      <4>1. pending_tool_invocations'[k].call = s[b] /\ pending_tool_invocations'[i] = Q[i]
        BY <1>7, <3>6
      <4> QED
        BY <2>2, <3>2, <3>6, <4>1
    <3> QED
      BY <1>7, <3>4, <3>5, <3>6
  <2> QED
    BY <2>1, <2>2 DEF QueueInv
<1>14. FreshInv'
  <2>1. ASSUME NEW d \in fresh', NEW i \in DOMAIN emitted', emitted'[i].call = d
        PROVE  FALSE
    <3>1. d \in fresh /\ \A k \in 1..n : s[k] # d
      BY <1>2, <1>3
    <3>2. CASE i \in 1..e
      BY <1>8, <1>9, <2>1, <3>1, <3>2
    <3>3. ASSUME NEW j \in 1..n, i = e + j
          PROVE  FALSE
      <4>1. emitted'[i].call = s[j]
        BY <1>8, <3>3
      <4> QED
        BY <2>1, <3>1, <4>1
    <3> QED
      BY <1>8, <3>2, <3>3
  <2>2. ASSUME NEW i \in DOMAIN emitted', NEW k \in DOMAIN emitted', emitted'[i].call = emitted'[k].call
        PROVE  i = k
    <3>1. ASSUME NEW a \in 1..e, NEW b \in 1..e, E[a].call = E[b].call
          PROVE  a = b
      BY <1>8, <3>1 DEF CallsInv, FreshInv, E
    <3>2. ASSUME NEW a \in 1..e, NEW b \in 1..n, E[a].call = s[b]
          PROVE  FALSE
      BY <1>1, <1>9, <3>2
    <3>3. ASSUME NEW a \in 1..n, NEW b \in 1..n, s[a] = s[b]
          PROVE  a = b
      BY <1>1, <3>3
    <3>4. CASE i \in 1..e /\ k \in 1..e
      BY <1>8, <2>2, <3>1, <3>4
    <3>5. ASSUME NEW a \in 1..n, i = e + a
          PROVE  i = k
      <4>1. emitted'[i].call = s[a]
        BY <1>8, <3>5
      <4>2. CASE k \in 1..e
        BY <1>8, <2>2, <3>2, <4>1, <4>2
      <4>3. ASSUME NEW b \in 1..n, k = e + b
            PROVE  i = k
        <5>1. emitted'[k].call = s[b]
          BY <1>8, <4>3
        <5>2. a = b
          BY <2>2, <3>3, <4>1, <5>1
        <5> QED
          BY <3>5, <4>3, <5>2
      <4> QED
        BY <1>8, <4>2, <4>3
    <3>6. ASSUME i \in 1..e, NEW b \in 1..n, k = e + b
          PROVE  i = k
      <4>1. emitted'[k].call = s[b] /\ emitted'[i] = E[i]
        BY <1>8, <3>6
      <4> QED
        BY <2>2, <3>2, <3>6, <4>1
    <3> QED
      BY <1>8, <3>4, <3>5, <3>6
  <2>3. \A d \in fresh' : /\ answers'[d] = 0
                          /\ tool_conversations'[d] = None
                          /\ d \notin requested'
                          /\ \A j \in DOMAIN started' : started'[j] # d
    BY <1>3 DEF CallsInv, FreshInv, tracking
  <2> QED
    BY <2>1, <2>2, <2>3 DEF FreshInv
<1> QED
  BY <1>10, <1>11, <1>12, <1>13, <1>14 DEF CallsInv

(* A result is taken only for a tracked call, which has no answer yet. *)
LEMMA CallsResult ==
    ASSUME IInv, CallsInv, NEW c \in Calls, ToolResult(c)
    PROVE  CallsInv'
<1>1. /\ work = <<>> /\ work' = Completion(c)
      /\ tool_conversations[c] # None
      /\ answers' = [answers EXCEPT ![c] = @ + 1]
      /\ UNCHANGED <<pending_tool_invocations, tracking, requested, emitted, fresh, started>>
  BY DEF ToolResult, Idle, outside
<1>2. work' = Completion(c) \o <<>> /\ <<>> \in Seq(Step)
  <2>1. Completion(c) \in Seq(Step)
    BY StepTypes
  <2> HIDE DEF Step
  <2> QED
    BY <1>1, <2>1
<1>3. answers[c] = 0
  BY <1>1, FirstStacks DEF CallsInv, Tracked
<1>4. c \notin fresh /\ \A k \in DOMAIN pending_tool_invocations : pending_tool_invocations[k].call # c
  BY <1>1 DEF CallsInv, FreshInv, QueueInv
<1> QED
  BY <1>1, <1>2, <1>3, <1>4, FirstStacks, CallsAnswered

(* The request of an extension is tracked, or answered at once. *)
LEMMA CallsRequest ==
    ASSUME IInv, CallsInv, NEW c \in Calls, ToolRequest(c)
    PROVE  CallsInv'
<1> DEFINE p == Head(providers_by_tool[ToolOf[c]])
<1>1. /\ work = <<>> /\ work' = <<>>
      /\ c \in fresh
      /\ fresh' = fresh \ {c}
      /\ requested' = requested \cup {c}
      /\ UNCHANGED <<pending_tool_invocations, in_flight_tool_kinds, emitted, started>>
  BY DEF ToolRequest, Idle, turns
<1>2. \/ /\ p \in Conns
         /\ tool_conversations' = [tool_conversations EXCEPT ![c] = Default]
         /\ pending_tool_providers' = [pending_tool_providers EXCEPT ![c] = p]
         /\ answers' = answers
      \/ /\ answers' = [answers EXCEPT ![c] = @ + 1]
         /\ UNCHANGED <<tool_conversations, pending_tool_providers>>
  <2>1. HasProvider(ToolOf[c]) => p \in Conns
    <3>1. providers_by_tool[ToolOf[c]] \in Seq(Conns)
      BY ToolSchedulerAssumption DEF IInv, TypeOK
    <3> QED
      BY <3>1 DEF HasProvider
  <2> QED
    BY <2>1 DEF ToolRequest
<1> HIDE DEF p
<1>3. /\ answers[c] = 0 /\ tool_conversations[c] = None /\ pending_tool_providers[c] = None
      /\ in_flight_tool_kinds[c] = "none"
      /\ \A k \in DOMAIN pending_tool_invocations : pending_tool_invocations[k].call # c
  BY <1>1 DEF IInv, FreshIsUnused, CallsInv, FreshInv, Tracked
<1>4. \A d \in Calls : d # c =>
            /\ tool_conversations'[d] = tool_conversations[d]
            /\ pending_tool_providers'[d] = pending_tool_providers[d]
            /\ answers'[d] = answers[d]
  BY <1>2 DEF IInv, TypeOK
<1>5. \/ answers'[c] = 0 /\ tool_conversations'[c] = Default
      \/ answers'[c] = 1 /\ tool_conversations'[c] = None /\ pending_tool_providers'[c] = None
  BY <1>2, <1>3 DEF IInv, TypeOK
<1>6. \A d \in Calls : Tracked(d)'
  <2> SUFFICES ASSUME NEW d \in Calls PROVE Tracked(d)'
    OBVIOUS
  <2>1. Tracked(d)
    BY DEF CallsInv
  <2>2. CASE d # c
    BY <1>1, <1>4, <2>1, <2>2, TrackedKept
  <2>3. CASE d = c
    BY <1>1, <1>3, <1>5, <2>3, FirstStacks, ToolSchedulerAssumption DEF Tracked
  <2> QED
    BY <2>2, <2>3
<1>7. Stack(work') /\ FailInv'
  BY <1>1, FirstStacks DEF FailInv
<1>8. QueueInv'
  <2>1. \A k \in DOMAIN pending_tool_invocations :
            /\ answers'[pending_tool_invocations[k].call] = 0
            /\ tool_conversations'[pending_tool_invocations[k].call] = None
            /\ pending_tool_invocations[k].call \notin requested'
    BY <1>1, <1>3, <1>4, QueueTypes DEF IInv, CallsInv, QueueInv
  <2> QED
    BY <1>1, <2>1 DEF CallsInv, QueueInv
<1>9. FreshInv'
  <2>1. \A d \in fresh' : d # c /\ d \in fresh /\ d \in Calls
    BY <1>1 DEF IInv, TypeOK
  <2> QED
    BY <1>1, <1>4, <2>1 DEF CallsInv, FreshInv
<1> QED
  BY <1>6, <1>7, <1>8, <1>9 DEF CallsInv

(* What a disconnect is to fail is tracked and has no answer. *)
LEMMA CallsDisconnect ==
    ASSUME IInv, CallsInv, NEW c \in Conns, Disconnect(c)
    PROVE  CallsInv'
<1> DEFINE D == {d \in Calls : pending_tool_providers[d] = c}
<1>1. /\ work = <<>>
      /\ UNCHANGED <<pending_tool_invocations, tracking, answers, requested, emitted, fresh, started>>
  BY DEF Disconnect, Idle, outside, history
<1>2. PICK s \in SetToSeqs(D) :
          work' = [k \in DOMAIN s |-> Do("fail", s[k])] \o
                  <<[op |-> "gone", call |-> None, conn |-> c]>>
  BY DEF Disconnect
<1>3. /\ Stack(work')
      /\ \A o, e : At(work', o, e) => o = "gone" \/ (o = "fail" /\ e \in D)
  BY <1>2, FailingStack
<1>4. \A d \in Calls : /\ ~At(work', "clear", d) /\ ~At(work', "done", d)
                       /\ ~At(work, "clear", d) /\ ~At(work, "done", d)
  BY <1>1, <1>3, FirstStacks
<1>5. \A d \in D : answers[d] = 0 /\ tool_conversations[d] # None
  BY <1>4, ToolSchedulerAssumption DEF CallsInv, Tracked
<1> HIDE DEF D
<1>6. \A d \in Calls : At(work', "fail", d) => answers[d] = 0
  BY <1>3, <1>5
<1>7. \A d \in Calls : Tracked(d)'
  BY <1>1, <1>4, <1>6 DEF CallsInv, Tracked, tracking
<1>8. FailInv'
  BY <1>1, <1>3, <1>5 DEF CallsInv, QueueInv, FreshInv, FailInv
<1>9. QueueInv' /\ FreshInv'
  BY <1>1 DEF CallsInv, QueueInv, FreshInv, tracking
<1> QED
  BY <1>3, <1>7, <1>8, <1>9 DEF CallsInv

(* A cancellation only takes calls from the queue. *)
LEMMA CallsCancel ==
    ASSUME IInv, CallsInv, CancelPrompt
    PROVE  CallsInv'
<1>1. PICK g : Embeds(pending_tool_invocations', pending_tool_invocations, g)
  BY Cancelled DEF IInv
<1>2. /\ work = <<>> /\ work' = <<>>
      /\ UNCHANGED <<in_flight_tool_kinds, answers, requested, emitted, fresh, started>>
      /\ \A d \in Calls : /\ tool_conversations'[d] = IF d \in Queued(Default) THEN None
                                                      ELSE tool_conversations[d]
                          /\ pending_tool_providers'[d] = IF d \in Queued(Default) THEN None
                                                          ELSE pending_tool_providers[d]
  BY DEF CancelPrompt, Idle, outside, history
<1>3. \A d \in Queued(Default) : d \in Calls => tool_conversations[d] = None /\ pending_tool_providers[d] = None
  BY DEF Queued, CallsInv, QueueInv, Tracked
<1>4. \A d \in Calls : /\ tool_conversations'[d] = tool_conversations[d]
                       /\ pending_tool_providers'[d] = pending_tool_providers[d]
  BY <1>2, <1>3
<1>5. \A d \in Calls : Tracked(d)'
  BY <1>2, <1>4, TrackedKept DEF CallsInv
<1>6. \A a \in DOMAIN pending_tool_invocations' :
          /\ g[a] \in DOMAIN pending_tool_invocations
          /\ pending_tool_invocations'[a] = pending_tool_invocations[g[a]]
          /\ pending_tool_invocations[g[a]].call \in Calls
  BY <1>1, QueueTypes DEF Embeds, IInv
<1>7. \A a, b \in DOMAIN pending_tool_invocations' : g[a] = g[b] => a = b
  BY <1>1 DEF Embeds
<1>8. QueueInv'
  <2>1. \A a, b \in DOMAIN pending_tool_invocations' :
            pending_tool_invocations'[a].call = pending_tool_invocations'[b].call => a = b
    BY <1>6, <1>7 DEF CallsInv, QueueInv
  <2>2. ASSUME NEW a \in DOMAIN pending_tool_invocations'
        PROVE  /\ answers'[pending_tool_invocations'[a].call] = 0
               /\ tool_conversations'[pending_tool_invocations'[a].call] = None
               /\ pending_tool_invocations'[a].call \notin requested'
               /\ \E m \in DOMAIN emitted' :
                     /\ emitted'[m].call = pending_tool_invocations'[a].call
                     /\ emitted'[m].conv = pending_tool_invocations'[a].conv
    <3> DEFINE y == pending_tool_invocations[g[a]]
    <3>1. /\ answers[y.call] = 0
          /\ tool_conversations[y.call] = None
          /\ y.call \notin requested
          /\ \E m \in DOMAIN emitted : emitted[m].call = y.call /\ emitted[m].conv = y.conv
      BY <1>6 DEF CallsInv, QueueInv
    <3>2. pending_tool_invocations'[a] = y /\ y.call \in Calls
      BY <1>6
    <3> HIDE DEF y
    <3> QED
      BY <1>2, <1>4, <3>1, <3>2
  <2> QED
    BY <2>1, <2>2 DEF QueueInv
<1>9. FreshInv'
  <2>1. fresh \subseteq Calls
    BY DEF IInv, TypeOK
  <2> QED
    BY <1>2, <1>4, <2>1 DEF CallsInv, FreshInv
<1>10. Stack(work') /\ FailInv'
  BY <1>2, FirstStacks DEF FailInv
<1> QED
  BY <1>5, <1>8, <1>9, <1>10 DEF CallsInv

(* A new session tracks no call. *)
LEMMA CallsSwitch ==
    ASSUME IInv, CallsInv, SwitchSession
    PROVE  CallsInv'
<1>1. /\ work = <<>> /\ work' = <<>>
      /\ pending_tool_invocations' = <<>> /\ emitted' = <<>> /\ started' = <<>> /\ requested' = {}
      /\ \A d \in Calls : tool_conversations'[d] = None /\ pending_tool_providers'[d] = None
      /\ answers' = answers /\ fresh' = fresh
  BY DEF SwitchSession, Idle, outside
<1>2. \A d \in Calls : Tracked(d)'
  BY <1>1, FirstStacks DEF CallsInv, Tracked
<1>3. QueueInv' /\ FailInv' /\ Stack(work')
  BY <1>1, FirstStacks DEF QueueInv, FailInv
<1>4. FreshInv'
  BY <1>1 DEF IInv, TypeOK, CallsInv, FreshInv
<1> QED
  BY <1>2, <1>3, <1>4 DEF CallsInv

(* At the start nothing is called. *)
LEMMA InitCalls == Init => CallsInv
BY FirstStacks DEF Init, CallsInv, QueueInv, FreshInv, FailInv, Tracked

(* Every step keeps what is said of the calls. *)
LEMMA NextCalls == IInv /\ CallsInv /\ [Next]_vars => CallsInv'
<1> SUFFICES ASSUME IInv, CallsInv, [Next]_vars PROVE CallsInv'
  OBVIOUS
<1>1. CASE Drain
  <2>1. PICK k \in Startable : Start(k)
    BY <1>1 DEF Drain
  <2> QED
    BY <1>1, <2>1, CallsStart DEF Drain, Startable
<1>2. CASE DrainEnd
  BY <1>2, CallsQuiet DEF DrainEnd, outside, history
<1>3. CASE CompleteTurn
  BY <1>3, CallsQuiet DEF CompleteTurn, outside, history
<1>4. CASE Gone
  BY <1>4, CallsQuiet DEF Gone, outside, history
<1>5. CASE Done \/ ClearTracking \/ FailCall
  BY <1>5, CallsDone, CallsClear, CallsFail
<1>6. CASE \E q \in Convs : \E s \in Responses : RespondWithCalls(q, s)
  BY <1>6, CallsRespond
<1>7. CASE \/ \E d \in Calls : ToolResult(d) \/ ToolRequest(d)
           \/ \E c \in Conns : Disconnect(c)
           \/ CancelPrompt
           \/ SwitchSession
  BY <1>7, CallsResult, CallsRequest, CallsDisconnect, CallsCancel, CallsSwitch
<1>8. CASE \/ \E c \in Conns, t \in Tools : ToolRegister(c, t)
           \/ Prompt
           \/ \E q \in Convs : RespondWithText(q)
           \/ \E d \in Calls, q \in Convs : ExtAgentQuery(d, q)
           \/ \E d \in Calls : DuplicateResult(d)
           \/ UNCHANGED vars
  BY <1>8, CallsSame DEF ToolRegister, Prompt, RespondWithText, ExtAgentQuery, DuplicateResult, vars,
                         outside, history, tracking
<1> QED
  BY <1>1, <1>2, <1>3, <1>4, <1>5, <1>6, <1>7, <1>8 DEF Next, Handler

-----------------------------------------------------------------------------
(* What a turn waits for.                                                  *)

(* A step that changes neither the turns nor what they wait for. *)
LEMMA TurnKept ==
    ASSUME TurnInv,
           \A q \in Convs : /\ Queued(q)' = Queued(q)
                            /\ Outstanding(q)' = Outstanding(q)
                            /\ remaining_calls'[q] = remaining_calls[q]
                            /\ turn_state'[q] = "tools" <=> turn_state[q] = "tools"
    PROVE  TurnInv'
<1> SUFFICES ASSUME NEW q \in Convs
             PROVE  IF turn_state'[q] = "tools"
                    THEN remaining_calls'[q] # {} /\ remaining_calls'[q] = Queued(q)' \cup Outstanding(q)'
                    ELSE Queued(q)' = {} /\ Outstanding(q)' = {}
  BY DEF TurnInv
<1> QED
  BY DEF TurnInv

(* What keeps every call waited for keeps the sets of them. *)
LEMMA OutstandingKept ==
    ASSUME \A d \in Calls :
               /\ tool_conversations'[d] = tool_conversations[d]
               /\ tool_conversations[d] # None => (Waited(d)' <=> Waited(d))
    PROVE  \A q \in Convs : Outstanding(q)' = Outstanding(q)
<1> SUFFICES ASSUME NEW q \in Convs PROVE Outstanding(q)' = Outstanding(q)
  OBVIOUS
<1>1. q # None
  BY ToolSchedulerAssumption
<1>2. \A d \in Calls : (tool_conversations[d] = q /\ Waited(d))' <=> (tool_conversations[d] = q /\ Waited(d))
  BY <1>1
<1> QED
  BY <1>2 DEF Outstanding

(* The same queue holds the same calls. *)
LEMMA QueuedKept ==
    ASSUME UNCHANGED pending_tool_invocations
    PROVE  \A q : Queued(q)' = Queued(q)
BY DEF Queued

(* The last two steps of a completion: the call does not run any more and is  *)
(* answered; after the last of them nothing of it is left to do.           *)
LEMMA Completing ==
    ASSUME IInv, CallsInv, work # <<>>, Head(work).op \in {"turn", "clear"},
           NEW c, c = Head(work).call
    PROVE  /\ c \in Calls /\ in_flight_tool_kinds[c] = "none" /\ answers[c] = 1
           /\ \A o, d : At(Tail(work), o, d) => At(work, o, d)
           /\ \A o, d : At(work, o, d) => At(Tail(work), o, d) \/ (Head(work).op = o /\ d = c)
           /\ ~At(Tail(work), Head(work).op, c)
           /\ Head(work).op = "turn" => At(work, "turn", c)
           /\ Head(work).op = "clear" => ~At(work, "turn", c)
<1> DEFINE w == Tail(work)
<1>1. /\ work \in Seq(Step) /\ Stack(work) /\ w \in Seq(Step) /\ c \in Calls
      /\ At(work, Head(work).op, c)
  <2>1. work \in Seq(Step) /\ Stack(work)
    BY QueueTypes DEF IInv, CallsInv
  <2>2. w \in Seq(Step) /\ c \in Calls
    BY TopOfStack DEF NextIs, IInv
  <2>3. 1 \in DOMAIN work /\ work[1] = Head(work)
    BY <2>1
  <2> QED
    BY <2>1, <2>2, <2>3 DEF At
<1>2. /\ Stack(w)
      /\ \A o, d : At(w, o, d) => At(work, o, d)
      /\ \A o, d : At(work, o, d) => At(w, o, d) \/ (Head(work).op = o /\ d = c)
      /\ ~At(w, Head(work).op, c)
  <2> HIDE DEF Step
  <2> QED
    BY <1>1, Popped
<1> HIDE DEF w
<1>3. ~At(w, "done", c)
  BY <1>1, <1>2, StackFacts
<1>4. ~At(work, "done", c)
  BY <1>2, <1>3
<1>5. At(work, "clear", c)
  BY <1>1, StackFacts
<1>6. in_flight_tool_kinds[c] = "none" /\ answers[c] = 1
  BY <1>1, <1>4, <1>5 DEF CallsInv, Tracked
<1>7. Head(work).op = "clear" => ~At(work, "turn", c)
  <2>1. At(w, "turn", c) => At(w, "clear", c)
    BY <1>1, <1>2, StackFacts
  <2> QED
    BY <1>2, <2>1
<1> QED
  BY <1>1, <1>2, <1>6, <1>7 DEF w

(* A call that starts goes from what is queued to what runs. *)
LEMMA TurnStart ==
    ASSUME IInv, CallsInv, TurnInv, NextIs("drain"), NEW k \in DOMAIN pending_tool_invocations, Start(k)
    PROVE  TurnInv'
<1> DEFINE x == pending_tool_invocations[k]
           c == x.call
           q == x.conv
<1>1. /\ c \in Calls /\ q \in Convs /\ q # None /\ x.kind \in {"pure", "mutating"}
      /\ tool_conversations[c] = None
      /\ UNCHANGED <<turns, requested>>
  BY StartEffect
<1>2. /\ \A d \in Calls : d # c => /\ in_flight_tool_kinds'[d] = in_flight_tool_kinds[d]
                                   /\ tool_conversations'[d] = tool_conversations[d]
      /\ in_flight_tool_kinds'[c] = x.kind
      /\ tool_conversations'[c] = q
      /\ \A d : d # c => (At(work', "turn", d) <=> At(work, "turn", d))
  BY StartEffect
<1>3. PICK g :
          /\ Embeds(pending_tool_invocations', pending_tool_invocations, g)
          /\ \A a \in DOMAIN pending_tool_invocations' : g[a] # k
          /\ \A j \in DOMAIN pending_tool_invocations :
                j = k \/ \E a \in DOMAIN pending_tool_invocations' : g[a] = j
  BY StartQueue DEF IInv
<1>4. \A j \in DOMAIN pending_tool_invocations : pending_tool_invocations[j].call = c => j = k
  BY DEF CallsInv, QueueInv
<1> HIDE DEF c, q, x
<1>5. \A r \in Convs : Queued(r)' = Queued(r) \ {c}
  <2> SUFFICES ASSUME NEW r \in Convs PROVE Queued(r)' = Queued(r) \ {c}
    OBVIOUS
  <2>1. \A d : d \in Queued(r) <=> \E j \in DOMAIN pending_tool_invocations : pending_tool_invocations[j].conv = r /\ pending_tool_invocations[j].call = d
    BY DEF Queued
  <2>2. \A d : d \in Queued(r)' <=>
            \E a \in DOMAIN pending_tool_invocations' :
                pending_tool_invocations'[a].conv = r /\ pending_tool_invocations'[a].call = d
    BY DEF Queued
  <2>3. \A a \in DOMAIN pending_tool_invocations' :
            g[a] \in DOMAIN pending_tool_invocations /\ pending_tool_invocations'[a] = pending_tool_invocations[g[a]]
    BY <1>3 DEF Embeds
  <2>4. \A d : d \in Queued(r)' => d \in Queued(r) /\ d # c
    BY <1>3, <1>4, <2>1, <2>2, <2>3
  <2>5. ASSUME NEW d \in Queued(r), d # c
        PROVE  d \in Queued(r)'
    <3>1. PICK j \in DOMAIN pending_tool_invocations : pending_tool_invocations[j].conv = r /\ pending_tool_invocations[j].call = d
      BY <2>1, <2>5
    <3>2. j # k
      BY <2>5, <3>1 DEF c, x
    <3>3. PICK a \in DOMAIN pending_tool_invocations' : g[a] = j
      BY <1>3, <3>2
    <3> QED
      BY <2>2, <2>3, <3>1, <3>3
  <2> QED
    BY <2>4, <2>5
<1>6. c \in Queued(q) /\ \A r \in Convs : c \in Queued(r) => r = q
  BY <1>4 DEF Queued, c, q, x
<1>7. \A r \in Convs : Outstanding(r)' = Outstanding(r) \cup (IF r = q THEN {c} ELSE {})
  <2> SUFFICES ASSUME NEW r \in Convs, NEW d \in Calls
               PROVE  d \in Outstanding(r)' <=> d \in Outstanding(r) \/ (r = q /\ d = c)
    <3>1. c \in Calls /\ \A r : Outstanding(r)' \subseteq Calls /\ Outstanding(r) \subseteq Calls
      BY <1>1 DEF Outstanding
    <3> QED
      BY <3>1 DEF Outstanding
  <2>1. d \in Outstanding(r)' <=>
            /\ tool_conversations'[d] = r
            /\ in_flight_tool_kinds'[d] # "none" \/ (At(work', "turn", d) /\ d \notin requested')
    BY DEF Outstanding, Waited
  <2>2. d \in Outstanding(r) <=>
            /\ tool_conversations[d] = r
            /\ in_flight_tool_kinds[d] # "none" \/ (At(work, "turn", d) /\ d \notin requested)
    BY DEF Outstanding, Waited
  <2>3. CASE d # c
    BY <1>1, <1>2, <2>1, <2>2, <2>3
  <2>4. CASE d = c
    <3>1. r # None
      BY ToolSchedulerAssumption
    <3> QED
      BY <1>1, <1>2, <2>1, <2>2, <2>4, <3>1
  <2> QED
    BY <2>3, <2>4
<1>8. turn_state' = turn_state /\ remaining_calls' = remaining_calls
  BY <1>1 DEF turns
<1> SUFFICES ASSUME NEW r \in Convs
             PROVE  IF turn_state'[r] = "tools"
                    THEN remaining_calls'[r] # {} /\ remaining_calls'[r] = Queued(r)' \cup Outstanding(r)'
                    ELSE Queued(r)' = {} /\ Outstanding(r)' = {}
  BY DEF TurnInv
<1>9. /\ Queued(r)' = Queued(r) \ {c}
      /\ Outstanding(r)' = Outstanding(r) \cup (IF r = q THEN {c} ELSE {})
      /\ IF turn_state[r] = "tools"
         THEN remaining_calls[r] # {} /\ remaining_calls[r] = Queued(r) \cup Outstanding(r)
         ELSE Queued(r) = {} /\ Outstanding(r) = {}
  BY <1>5, <1>7 DEF TurnInv
<1>10. CASE r = q
  BY <1>6, <1>8, <1>9, <1>10
<1>11. CASE r # q
  BY <1>6, <1>8, <1>9, <1>11
<1> QED
  BY <1>10, <1>11

(* A call that no longer runs is still in its turn. *)
LEMMA TurnDone ==
    ASSUME IInv, CallsInv, TurnInv, Done
    PROVE  TurnInv'
<1> DEFINE c == Head(work).call
<1>1. /\ work \in Seq(Step) /\ work # <<>> /\ Stack(work) /\ Head(work).op = "done"
      /\ c \in Calls
      /\ work' = Tail(work)
      /\ in_flight_tool_kinds' = [in_flight_tool_kinds EXCEPT ![c] = "none"]
      /\ UNCHANGED <<turn_state, remaining_calls, pending_tool_invocations, tool_conversations, requested>>
  BY QueueTypes, TopOfStack DEF IInv, CallsInv, NextIs, Done, turns, history
<1>2. /\ \A o, d : At(work', o, d) => At(work, o, d)
      /\ \A o, d : At(work, o, d) => At(work', o, d) \/ (o = "done" /\ d = c)
      /\ At(work', "turn", c)
  <2> HIDE DEF Step
  <2> QED
    BY <1>1, Popped
<1> HIDE DEF c
<1>3. /\ in_flight_tool_kinds'[c] = "none"
      /\ \A d \in Calls : d # c => in_flight_tool_kinds'[d] = in_flight_tool_kinds[d]
      /\ c \in requested => in_flight_tool_kinds[c] = "none"
  BY <1>1 DEF IInv, TypeOK, CallsInv, Tracked
<1>4. \A d \in Calls : Waited(d)' <=> Waited(d)
  <2> SUFFICES ASSUME NEW d \in Calls PROVE Waited(d)' <=> Waited(d)
    OBVIOUS
  <2>1. At(work', "turn", d) <=> At(work, "turn", d)
    BY <1>2
  <2>2. /\ Waited(d)' <=> in_flight_tool_kinds'[d] # "none" \/ (At(work', "turn", d) /\ d \notin requested')
        /\ Waited(d) <=> in_flight_tool_kinds[d] # "none" \/ (At(work, "turn", d) /\ d \notin requested)
    BY DEF Waited
  <2>3. CASE d = c
    BY <1>1, <1>2, <1>3, <2>1, <2>2, <2>3
  <2>4. CASE d # c
    BY <1>1, <1>3, <2>1, <2>2, <2>4
  <2> QED
    BY <2>3, <2>4
<1>5. \A d \in Calls : tool_conversations'[d] = tool_conversations[d]
  BY <1>1
<1>6. \A q \in Convs : Outstanding(q)' = Outstanding(q)
  BY <1>4, <1>5, OutstandingKept
<1> QED
  BY <1>1, <1>6, QueuedKept, TurnKept

(* When tracking is cleared the turn has let the call go. *)
LEMMA TurnClear ==
    ASSUME IInv, CallsInv, TurnInv, ClearTracking
    PROVE  TurnInv'
<1>0. PICK c : c = Head(work).call
  OBVIOUS
<1>1. /\ work # <<>> /\ Head(work).op = "clear"
      /\ work' = Tail(work)
      /\ tool_conversations' = [tool_conversations EXCEPT ![c] = None]
      /\ UNCHANGED <<turn_state, remaining_calls, pending_tool_invocations, in_flight_tool_kinds, requested>>
  BY <1>0 DEF ClearTracking, NextIs, turns, history
<1>2. /\ c \in Calls /\ in_flight_tool_kinds[c] = "none"
      /\ \A o, d : At(work', o, d) => At(work, o, d)
      /\ \A o, d : At(work, o, d) => At(work', o, d) \/ (o = "clear" /\ d = c)
      /\ ~At(work, "turn", c)
  BY <1>0, <1>1, Completing
<1>3. \A d \in Calls : d # c => tool_conversations'[d] = tool_conversations[d]
  BY <1>1 DEF IInv, TypeOK
<1>4. ~Waited(c) /\ ~Waited(c)'
  BY <1>1, <1>2 DEF Waited
<1>5. \A d \in Calls : Waited(d)' <=> Waited(d)
  <2> SUFFICES ASSUME NEW d \in Calls PROVE Waited(d)' <=> Waited(d)
    OBVIOUS
  <2>1. At(work', "turn", d) <=> At(work, "turn", d)
    BY <1>2
  <2> QED
    BY <1>1, <2>1 DEF Waited
<1>6. \A q \in Convs : Outstanding(q)' = Outstanding(q)
  <2> SUFFICES ASSUME NEW q \in Convs, NEW d \in Calls
               PROVE  (tool_conversations[d] = q /\ Waited(d))' <=> (tool_conversations[d] = q /\ Waited(d))
    BY DEF Outstanding
  <2> QED
    BY <1>3, <1>4, <1>5
<1> QED
  BY <1>1, <1>6, QueuedKept, TurnKept

(* The turn lets one call go, and ends with the last. *)
LEMMA TurnComplete ==
    ASSUME IInv, CallsInv, TurnInv, CompleteTurn
    PROVE  TurnInv'
<1>0. PICK c : c = Head(work).call
  OBVIOUS
<1> DEFINE q == tool_conversations[c]
<1>1. /\ work # <<>> /\ Head(work).op = "turn"
      /\ work' = Tail(work)
      /\ UNCHANGED <<pending_tool_invocations, tool_conversations, in_flight_tool_kinds, requested>>
  BY DEF CompleteTurn, NextIs, tracking, history
<1>2. \/ /\ q # None
         /\ turn_state[q] = "tools"
         /\ remaining_calls' = [remaining_calls EXCEPT ![q] = @ \ {c}]
         /\ turn_state' = [turn_state EXCEPT ![q] = IF remaining_calls[q] \ {c} = {} THEN "thinking" ELSE @]
      \/ /\ q = None \/ turn_state[q] # "tools"
         /\ UNCHANGED <<turn_state, remaining_calls>>
  BY <1>0 DEF CompleteTurn
<1>3. /\ c \in Calls /\ in_flight_tool_kinds[c] = "none" /\ answers[c] = 1
      /\ \A o, d : At(work', o, d) => At(work, o, d)
      /\ \A o, d : At(work, o, d) => At(work', o, d) \/ (o = "turn" /\ d = c)
      /\ ~At(work', "turn", c)
  BY <1>0, <1>1, Completing
<1>4. q \in Convs \cup {None} /\ turn_state \in [Convs -> {"none", "idle", "thinking", "tools"}]
      /\ remaining_calls \in [Convs -> SUBSET Calls]
  BY <1>3 DEF IInv, TypeOK
<1> HIDE DEF q
<1>5. \A r \in Convs : Outstanding(r)' = Outstanding(r) \ {c}
  <2>1. ~Waited(c)'
    BY <1>1, <1>3 DEF Waited
  <2>2. \A d \in Calls : d # c => (Waited(d)' <=> Waited(d))
    BY <1>1, <1>3 DEF Waited
  <2> SUFFICES ASSUME NEW r \in Convs PROVE Outstanding(r)' = Outstanding(r) \ {c}
    OBVIOUS
  <2>3. \A d \in Calls : (tool_conversations[d] = r /\ Waited(d))' <=>
                         (tool_conversations[d] = r /\ Waited(d) /\ d # c)
    BY <1>1, <2>1, <2>2
  <2> QED
    BY <2>3 DEF Outstanding
<1>6. \A r : c \notin Queued(r) /\ Queued(r)' = Queued(r)
  BY <1>1, <1>3, QueuedKept DEF CallsInv, QueueInv, Queued
<1>7. \A r \in Convs : c \in Outstanding(r) => r = q
  BY DEF Outstanding, q
<1> SUFFICES ASSUME NEW r \in Convs
             PROVE  IF turn_state'[r] = "tools"
                    THEN remaining_calls'[r] # {} /\ remaining_calls'[r] = Queued(r)' \cup Outstanding(r)'
                    ELSE Queued(r)' = {} /\ Outstanding(r)' = {}
  BY DEF TurnInv
<1>8. IF turn_state[r] = "tools"
      THEN remaining_calls[r] # {} /\ remaining_calls[r] = Queued(r) \cup Outstanding(r)
      ELSE Queued(r) = {} /\ Outstanding(r) = {}
  BY DEF TurnInv
<1>9. /\ Outstanding(r)' = Outstanding(r) \ {c}
      /\ Queued(r)' = Queued(r) /\ c \notin Queued(r)
      /\ r # q => c \notin Outstanding(r)
  BY <1>5, <1>6, <1>7
<1>10. CASE r = q /\ turn_state[r] = "tools"
  <2>1. r # None
    BY ToolSchedulerAssumption
  <2>2. /\ remaining_calls'[r] = remaining_calls[r] \ {c}
        /\ turn_state'[r] = IF remaining_calls[r] \ {c} = {} THEN "thinking" ELSE turn_state[r]
    BY <1>2, <1>4, <1>10, <2>1
  <2> QED
    BY <1>8, <1>9, <1>10, <2>2
<1>11. CASE ~(r = q /\ turn_state[r] = "tools")
  <2>1. remaining_calls'[r] = remaining_calls[r] /\ turn_state'[r] = turn_state[r]
    BY <1>2, <1>4, <1>11
  <2> QED
    BY <1>8, <1>9, <1>11, <2>1
<1> QED
  BY <1>10, <1>11

(* A call that is answered is waited for until its completion is over. *)
LEMMA TurnAnswered ==
    ASSUME IInv, CallsInv, TurnInv, NEW c \in Calls, NEW w \in Seq(Step), Stack(w),
           answers[c] = 0,
           \A o, d : At(w, o, d) => At(work, o, d),
           \A o, d : At(work, o, d) => At(w, o, d) \/ o \notin {"done", "turn", "clear"},
           work' = Completion(c) \o w,
           UNCHANGED <<turns, pending_tool_invocations, tracking, requested>>
    PROVE  TurnInv'
<1>1. ~At(w, "clear", c) /\ ~At(work, "clear", c)
  BY DEF CallsInv, Tracked
<1>2. \A e : At(work', "turn", e) <=> At(w, "turn", e) \/ e = c
  BY <1>1, Pushed
<1>3. \A d \in Calls : tool_conversations[d] # None => (Waited(d)' <=> Waited(d))
  <2> SUFFICES ASSUME NEW d \in Calls, tool_conversations[d] # None PROVE Waited(d)' <=> Waited(d)
    OBVIOUS
  <2>1. CASE d # c
    <3>1. At(work', "turn", d) <=> At(work, "turn", d)
      BY <1>2, <2>1
    <3> QED
      BY <3>1 DEF Waited, tracking
  <2>2. CASE d = c
    <3>1. d \notin requested => in_flight_tool_kinds[d] # "none"
      BY <1>1, <2>2 DEF CallsInv, Tracked
    <3> QED
      BY <3>1 DEF Waited, tracking
  <2> QED
    BY <2>1, <2>2
<1>4. \A q \in Convs : Outstanding(q)' = Outstanding(q)
  BY <1>3, OutstandingKept DEF tracking
<1> QED
  BY <1>4, QueuedKept, TurnKept DEF turns

(* A failed call is in its turn until its completion is over. *)
LEMMA TurnFail ==
    ASSUME IInv, CallsInv, TurnInv, FailCall
    PROVE  TurnInv'
<1> DEFINE c == Head(work).call
           w == Tail(work)
<1>1. /\ work \in Seq(Step) /\ work # <<>> /\ Stack(work) /\ Head(work).op = "fail"
      /\ c \in Calls
      /\ w \in Seq(Step)
      /\ work' = Completion(c) \o w
      /\ UNCHANGED <<turns, pending_tool_invocations, tracking, requested>>
  BY QueueTypes, TopOfStack DEF IInv, CallsInv, NextIs, FailCall
<1>2. /\ Stack(w)
      /\ \A o, d : At(w, o, d) => At(work, o, d)
      /\ \A o, d : At(work, o, d) => At(w, o, d) \/ (o = "fail" /\ d = c)
      /\ At(work, "fail", c)
  <2>1. At(work, "fail", c)
    <3>1. 1 \in DOMAIN work /\ work[1] = Head(work)
      BY <1>1
    <3> QED
      BY <1>1, <3>1 DEF At
  <2> QED
    BY <1>1, <2>1, Popped
<1> HIDE DEF c, w
<1>3. answers[c] = 0
  BY <1>1, <1>2 DEF CallsInv, Tracked
<1>4. \A o, d : At(work, o, d) => At(w, o, d) \/ o \notin {"done", "turn", "clear"}
  BY <1>2
<1> QED
  BY <1>1, <1>2, <1>3, <1>4, TurnAnswered

(* So is a call with a result. *)
LEMMA TurnResult ==
    ASSUME IInv, CallsInv, TurnInv, NEW c \in Calls, ToolResult(c)
    PROVE  TurnInv'
<1>1. /\ work = <<>> /\ work' = Completion(c)
      /\ tool_conversations[c] # None
      /\ UNCHANGED <<turns, pending_tool_invocations, tracking, requested>>
  BY DEF ToolResult, Idle
<1>2. work' = Completion(c) \o <<>> /\ <<>> \in Seq(Step)
  <2>1. Completion(c) \in Seq(Step)
    BY StepTypes
  <2> HIDE DEF Step
  <2> QED
    BY <1>1, <2>1
<1>3. answers[c] = 0
  BY <1>1, FirstStacks DEF CallsInv, Tracked
<1> QED
  BY <1>1, <1>2, <1>3, FirstStacks, TurnAnswered

(* A frame that starts no completion, and takes and gives no call of a turn.  *)
LEMMA TurnFrame ==
    ASSUME TurnInv,
           \A d : At(work', "turn", d) <=> At(work, "turn", d),
           \A q \in Convs : /\ turn_state'[q] = "tools" <=> turn_state[q] = "tools"
                            /\ remaining_calls'[q] = remaining_calls[q],
           UNCHANGED <<pending_tool_invocations, tracking, requested>>
    PROVE  TurnInv'
<1>1. \A d \in Calls : Waited(d)' <=> Waited(d)
  BY DEF Waited, tracking
<1>2. \A q \in Convs : Outstanding(q)' = Outstanding(q)
  BY <1>1, OutstandingKept DEF tracking
<1> QED
  BY <1>2, QueuedKept, TurnKept

(* The request of an extension is in no turn. *)
LEMMA TurnRequest ==
    ASSUME IInv, CallsInv, TurnInv, NEW c \in Calls, ToolRequest(c)
    PROVE  TurnInv'
<1>1. /\ work = <<>> /\ work' = <<>>
      /\ c \in fresh
      /\ requested' = requested \cup {c}
      /\ UNCHANGED <<turn_state, remaining_calls, pending_tool_invocations, in_flight_tool_kinds>>
      /\ tool_conversations' \in {tool_conversations, [tool_conversations EXCEPT ![c] = Default]}
  BY DEF ToolRequest, Idle, turns
<1>2. in_flight_tool_kinds[c] = "none"
  BY <1>1 DEF IInv, FreshIsUnused
<1>3. \A d \in Calls : d # c => tool_conversations'[d] = tool_conversations[d]
  BY <1>1 DEF IInv, TypeOK
<1>4. ~Waited(c) /\ ~Waited(c)' /\ \A d \in Calls : d # c => (Waited(d)' <=> Waited(d))
  BY <1>1, <1>2, FirstStacks DEF Waited
<1>5. \A q \in Convs : Outstanding(q)' = Outstanding(q)
  <2> SUFFICES ASSUME NEW q \in Convs, NEW d \in Calls
               PROVE  (tool_conversations[d] = q /\ Waited(d))' <=> (tool_conversations[d] = q /\ Waited(d))
    BY DEF Outstanding
  <2> QED
    BY <1>3, <1>4
<1> QED
  BY <1>1, <1>5, QueuedKept, TurnKept

(* A disconnect has yet to fail the calls it will fail. *)
LEMMA TurnDisconnect ==
    ASSUME IInv, CallsInv, TurnInv, NEW c \in Conns, Disconnect(c)
    PROVE  TurnInv'
<1> DEFINE D == {d \in Calls : pending_tool_providers[d] = c}
<1>1. /\ work = <<>>
      /\ UNCHANGED <<turn_state, remaining_calls, pending_tool_invocations, tracking, requested>>
  BY DEF Disconnect, Idle, turns, history
<1>2. PICK s \in SetToSeqs(D) :
          work' = [k \in DOMAIN s |-> Do("fail", s[k])] \o
                  <<[op |-> "gone", call |-> None, conn |-> c]>>
  BY DEF Disconnect
<1>3. \A o, e : At(work', o, e) => o = "gone" \/ (o = "fail" /\ e \in D)
  BY <1>2, FailingStack
<1>4. \A d : At(work', "turn", d) <=> At(work, "turn", d)
  BY <1>1, <1>3, FirstStacks
<1> QED
  BY <1>1, <1>4, TurnFrame

(* The calls of a response are queued, and their turn waits for them. *)
LEMMA TurnRespond ==
    ASSUME IInv, CallsInv, TurnInv, NEW q \in Convs, NEW s \in Responses, RespondWithCalls(q, s)
    PROVE  TurnInv'
<1> DEFINE Q == pending_tool_invocations
           l == Len(Q)
           n == Len(s)
<1>1. /\ n \in Nat \ {0} /\ ToSet(s) = {s[k] : k \in 1..n}
      /\ turn_state[q] = "thinking"
      /\ turn_state' = [turn_state EXCEPT ![q] = "tools"]
      /\ remaining_calls' = [remaining_calls EXCEPT ![q] = ToSet(s)]
      /\ work = <<>> /\ work' = <<Do("drain", None)>>
      /\ UNCHANGED <<tracking, requested>>
  BY RespondEffect
<1>2. /\ l \in Nat /\ DOMAIN Q = 1..l
      /\ \A j \in 1..l : j \in DOMAIN pending_tool_invocations' /\ pending_tool_invocations'[j] = Q[j]
      /\ \A j \in 1..n : /\ l + j \in DOMAIN pending_tool_invocations'
                         /\ pending_tool_invocations'[l + j].call = s[j]
                         /\ pending_tool_invocations'[l + j].conv = q
      /\ \A i \in DOMAIN pending_tool_invocations' : i \in 1..l \/ \E j \in 1..n : i = l + j
  BY RespondEffect
<1>3. \A r \in Convs : Outstanding(r)' = Outstanding(r)
  <2>1. \A d \in Calls : Waited(d)' <=> Waited(d)
    BY <1>1, FirstStacks DEF Waited, tracking
  <2> QED
    BY <1>1, <2>1, OutstandingKept DEF tracking
<1> HIDE DEF l, n
<1>4. \A r \in Convs : Queued(r)' = Queued(r) \cup (IF r = q THEN ToSet(s) ELSE {})
  <2> SUFFICES ASSUME NEW r \in Convs, NEW d
               PROVE  d \in Queued(r)' <=> d \in Queued(r) \/ (r = q /\ d \in ToSet(s))
    OBVIOUS
  <2>1. d \in Queued(r) <=> \E j \in 1..l : Q[j].conv = r /\ Q[j].call = d
    BY <1>2 DEF Queued
  <2>2. d \in Queued(r)' <=>
            \E a \in DOMAIN pending_tool_invocations' :
                pending_tool_invocations'[a].conv = r /\ pending_tool_invocations'[a].call = d
    BY DEF Queued
  <2> HIDE DEF Q
  <2>3. d \in Queued(r) => d \in Queued(r)'
    BY <1>2, <2>1, <2>2
  <2>4. r = q /\ d \in ToSet(s) => d \in Queued(r)'
    BY <1>1, <1>2, <2>2
  <2>5. ASSUME NEW a \in DOMAIN pending_tool_invocations',
               pending_tool_invocations'[a].conv = r, pending_tool_invocations'[a].call = d
        PROVE  d \in Queued(r) \/ (r = q /\ d \in ToSet(s))
    <3>1. CASE a \in 1..l
      BY <1>2, <2>1, <2>5, <3>1
    <3>2. ASSUME NEW j \in 1..n, a = l + j
          PROVE  r = q /\ d \in ToSet(s)
      BY <1>1, <1>2, <2>5, <3>2
    <3> QED
      BY <1>2, <3>1, <3>2
  <2> QED
    BY <2>2, <2>3, <2>4, <2>5
<1>5. ToSet(s) # {}
  <2>1. 1 \in 1..n
    BY <1>1
  <2> QED
    BY <1>1, <2>1
<1> SUFFICES ASSUME NEW r \in Convs
             PROVE  IF turn_state'[r] = "tools"
                    THEN remaining_calls'[r] # {} /\ remaining_calls'[r] = Queued(r)' \cup Outstanding(r)'
                    ELSE Queued(r)' = {} /\ Outstanding(r)' = {}
  BY DEF TurnInv
<1>6. /\ Outstanding(r)' = Outstanding(r)
      /\ Queued(r)' = Queued(r) \cup (IF r = q THEN ToSet(s) ELSE {})
      /\ IF turn_state[r] = "tools"
         THEN remaining_calls[r] # {} /\ remaining_calls[r] = Queued(r) \cup Outstanding(r)
         ELSE Queued(r) = {} /\ Outstanding(r) = {}
  BY <1>3, <1>4 DEF TurnInv
<1>7. /\ turn_state'[r] = IF r = q THEN "tools" ELSE turn_state[r]
      /\ remaining_calls'[r] = IF r = q THEN ToSet(s) ELSE remaining_calls[r]
  BY <1>1 DEF IInv, TypeOK
<1> QED
  BY <1>1, <1>5, <1>6, <1>7

(* A cancelled prompt had no call, so nothing it drops was queued for a turn. *)
LEMMA TurnCancel ==
    ASSUME IInv, CallsInv, TurnInv, CancelPrompt
    PROVE  /\ TurnInv'
           /\ Queued(Default) = {}
           /\ \A d \in Calls : tool_conversations'[d] = tool_conversations[d]
<1>1. PICK g : /\ Embeds(pending_tool_invocations', pending_tool_invocations, g)
               /\ \A j \in DOMAIN pending_tool_invocations :
                     pending_tool_invocations[j].conv # Default =>
                         \E a \in DOMAIN pending_tool_invocations' : g[a] = j
  BY Cancelled DEF IInv
<1>2. /\ work = <<>> /\ work' = <<>>
      /\ turn_state[Default] = "thinking"
      /\ turn_state' = [turn_state EXCEPT ![Default] = "idle"]
      /\ UNCHANGED <<remaining_calls, in_flight_tool_kinds, requested>>
      /\ \A d \in Calls : tool_conversations'[d] = IF d \in Queued(Default) THEN None
                                                   ELSE tool_conversations[d]
  BY DEF CancelPrompt, Idle, history
<1>3. Queued(Default) = {}
  BY <1>2, ToolSchedulerAssumption DEF TurnInv
<1>4. \A d \in Calls : tool_conversations'[d] = tool_conversations[d]
  BY <1>2, <1>3
<1>5. \A q \in Convs : Outstanding(q)' = Outstanding(q)
  <2>1. \A d \in Calls : Waited(d)' <=> Waited(d)
    BY <1>2 DEF Waited
  <2> QED
    BY <1>4, <2>1, OutstandingKept
<1>6. \A q \in Convs : Queued(q)' = Queued(q)
  <2> SUFFICES ASSUME NEW q \in Convs, NEW d
               PROVE  d \in Queued(q)' <=> d \in Queued(q)
    OBVIOUS
  <2>1. d \in Queued(q) <=> \E j \in DOMAIN pending_tool_invocations :
            pending_tool_invocations[j].conv = q /\ pending_tool_invocations[j].call = d
    BY DEF Queued
  <2>2. d \in Queued(q)' <=> \E a \in DOMAIN pending_tool_invocations' :
            pending_tool_invocations'[a].conv = q /\ pending_tool_invocations'[a].call = d
    BY DEF Queued
  <2>3. \A a \in DOMAIN pending_tool_invocations' :
            /\ g[a] \in DOMAIN pending_tool_invocations
            /\ pending_tool_invocations'[a] = pending_tool_invocations[g[a]]
    BY <1>1 DEF Embeds
  <2>4. \A j \in DOMAIN pending_tool_invocations : pending_tool_invocations[j].conv # Default
    BY <1>3 DEF Queued
  <2> QED
    BY <1>1, <2>1, <2>2, <2>3, <2>4
<1>7. \A q \in Convs : turn_state'[q] = "tools" <=> turn_state[q] = "tools"
  BY <1>2 DEF IInv, TypeOK
<1>8. TurnInv'
  BY <1>2, <1>5, <1>6, <1>7, TurnKept
<1> QED
  BY <1>3, <1>4, <1>8

(* A new session waits for nothing. *)
LEMMA TurnSwitch ==
    ASSUME SwitchSession
    PROVE  TurnInv'
<1>1. /\ \A q \in Convs : turn_state'[q] # "tools"
      /\ pending_tool_invocations' = <<>>
      /\ \A d \in Calls : tool_conversations'[d] = None
  BY DEF SwitchSession
<1>2. \A q \in Convs : Queued(q)' = {} /\ Outstanding(q)' = {}
  BY <1>1, ToolSchedulerAssumption DEF Queued, Outstanding
<1> QED
  BY <1>1, <1>2 DEF TurnInv

(* At the start no turn waits. *)
LEMMA InitTurn == Init => TurnInv
<1> SUFFICES ASSUME Init, NEW q \in Convs
             PROVE  turn_state[q] # "tools" /\ Queued(q) = {} /\ Outstanding(q) = {}
  BY DEF TurnInv
<1>1. turn_state[q] # "tools" /\ Queued(q) = {}
  BY DEF Init, Queued
<1>2. Outstanding(q) = {}
  BY ToolSchedulerAssumption DEF Init, Outstanding
<1> QED
  BY <1>1, <1>2

(* Every step keeps what is said of the turns. *)
LEMMA NextTurn == IInv /\ CallsInv /\ TurnInv /\ [Next]_vars => TurnInv'
<1> SUFFICES ASSUME IInv, CallsInv, TurnInv, [Next]_vars PROVE TurnInv'
  OBVIOUS
<1>1. CASE Drain
  <2>1. PICK k \in Startable : Start(k)
    BY <1>1 DEF Drain
  <2> QED
    BY <1>1, <2>1, TurnStart DEF Drain, Startable
<1>2. CASE DrainEnd \/ Gone
  <2>1. /\ work # <<>> /\ Head(work).op \in {"drain", "gone"} /\ work' = Tail(work)
        /\ UNCHANGED <<turns, pending_tool_invocations, tracking, requested>>
    BY <1>2 DEF DrainEnd, Gone, NextIs, history
  <2>2. work \in Seq(Step) /\ Stack(work)
    BY QueueTypes DEF IInv, CallsInv
  <2>3. \A d : At(work', "turn", d) <=> At(work, "turn", d)
    <3> HIDE DEF Step
    <3> QED
      BY <2>1, <2>2, Popped
  <2> QED
    BY <2>1, <2>3, TurnFrame DEF turns
<1>3. CASE Done \/ ClearTracking \/ CompleteTurn \/ FailCall
  BY <1>3, TurnDone, TurnClear, TurnComplete, TurnFail
<1>4. CASE \E q \in Convs : \E s \in Responses : RespondWithCalls(q, s)
  BY <1>4, TurnRespond
<1>5. CASE \/ \E d \in Calls : ToolResult(d) \/ ToolRequest(d)
           \/ \E c \in Conns : Disconnect(c)
           \/ CancelPrompt
           \/ SwitchSession
  BY <1>5, TurnResult, TurnRequest, TurnDisconnect, TurnCancel, TurnSwitch
<1>6. CASE \/ \E c \in Conns, t \in Tools : ToolRegister(c, t)
           \/ \E d \in Calls : DuplicateResult(d)
           \/ UNCHANGED vars
  BY <1>6, TurnFrame DEF ToolRegister, DuplicateResult, vars, history, turns, tracking
<1>7. CASE \/ Prompt
           \/ \E q \in Convs : RespondWithText(q)
           \/ \E d \in Calls, q \in Convs : ExtAgentQuery(d, q)
  <2>1. /\ UNCHANGED <<work, remaining_calls, pending_tool_invocations, tracking, requested>>
        /\ \E q \in Convs, t \in {"idle", "none", "thinking"} :
              turn_state[q] # "tools" /\ turn_state' = [turn_state EXCEPT ![q] = t]
    BY <1>7, ToolSchedulerAssumption DEF Prompt, RespondWithText, ExtAgentQuery, history
  <2>2. \A q \in Convs : turn_state'[q] = "tools" <=> turn_state[q] = "tools"
    BY <2>1 DEF IInv, TypeOK
  <2> QED
    BY <2>1, <2>2, TurnFrame
<1> QED
  BY <1>1, <1>2, <1>3, <1>4, <1>5, <1>6, <1>7 DEF Next, Handler

-----------------------------------------------------------------------------
(* A call without a result is a call its turn waits for.                   *)

(* A step that ends no turn, and only adds answers. *)
LEMMA ResultsKept ==
    ASSUME IInv, ResultsInv,
           UNCHANGED emitted,
           \A d \in Calls : answers'[d] = 0 => answers[d] = 0,
           \A q \in Convs : turn_state[q] = "tools" =>
               turn_state'[q] = "tools" /\ remaining_calls'[q] = remaining_calls[q]
    PROVE  ResultsInv'
BY QueueTypes DEF IInv, ResultsInv

(* A result more, for one call. *)
LEMMA AnswersGrow ==
    ASSUME TypeOK, NEW c \in Calls, answers' \in {answers, [answers EXCEPT ![c] = @ + 1]}
    PROVE  \A d \in Calls : answers'[d] = 0 => answers[d] = 0
BY DEF TypeOK

(* The call that leaves its turn has its result. *)
LEMMA ResultsComplete ==
    ASSUME IInv, CallsInv, ResultsInv, CompleteTurn
    PROVE  ResultsInv'
<1>0. PICK c : c = Head(work).call
  OBVIOUS
<1>1. work # <<>> /\ Head(work).op = "turn" /\ UNCHANGED <<answers, emitted>>
  BY DEF CompleteTurn, NextIs, history
<1>2. \/ \E q \in Convs :
            /\ remaining_calls' = [remaining_calls EXCEPT ![q] = @ \ {c}]
            /\ turn_state' = [turn_state EXCEPT ![q] = IF remaining_calls[q] \ {c} = {} THEN "thinking" ELSE @]
      \/ UNCHANGED <<turn_state, remaining_calls>>
  <2>1. tool_conversations[c] \in Convs \cup {None}
    BY <1>0, <1>1, Completing DEF IInv, TypeOK
  <2> QED
    BY <1>0, <2>1 DEF CompleteTurn
<1>3. answers[c] = 1
  BY <1>0, <1>1, Completing
<1> SUFFICES ASSUME NEW m \in DOMAIN emitted, answers[emitted[m].call] = 0
             PROVE  /\ turn_state'[emitted[m].conv] = "tools"
                    /\ emitted[m].call \in remaining_calls'[emitted[m].conv]
  BY <1>1 DEF ResultsInv
<1> DEFINE r == emitted[m].conv
           d == emitted[m].call
<1>4. r \in Convs /\ d # c /\ turn_state[r] = "tools" /\ d \in remaining_calls[r]
  BY <1>3, QueueTypes DEF IInv, ResultsInv
<1> HIDE DEF r, d
<1>5. ASSUME NEW q \in Convs,
             remaining_calls' = [remaining_calls EXCEPT ![q] = @ \ {c}],
             turn_state' = [turn_state EXCEPT ![q] = IF remaining_calls[q] \ {c} = {} THEN "thinking" ELSE @]
      PROVE  turn_state'[r] = "tools" /\ d \in remaining_calls'[r]
  <2>1. /\ turn_state'[r] = IF r = q /\ remaining_calls[q] \ {c} = {} THEN "thinking" ELSE turn_state[r]
        /\ remaining_calls'[r] = IF r = q THEN remaining_calls[r] \ {c} ELSE remaining_calls[r]
    BY <1>4, <1>5 DEF IInv, TypeOK
  <2> QED
    BY <1>4, <2>1
<1> QED
  BY <1>2, <1>4, <1>5 DEF r, d

(* Calls that were just made are in the turn that made them. *)
LEMMA ResultsRespond ==
    ASSUME IInv, CallsInv, ResultsInv, NEW q \in Convs, NEW s \in Responses, RespondWithCalls(q, s)
    PROVE  ResultsInv'
<1> DEFINE E == emitted
           e == Len(E)
           n == Len(s)
<1>1. /\ ToSet(s) = {s[k] : k \in 1..n}
      /\ turn_state[q] = "thinking"
      /\ turn_state' = [turn_state EXCEPT ![q] = "tools"]
      /\ remaining_calls' = [remaining_calls EXCEPT ![q] = ToSet(s)]
      /\ UNCHANGED answers
  BY RespondEffect
<1>2. /\ e \in Nat /\ DOMAIN E = 1..e
      /\ \A j \in 1..e : j \in DOMAIN emitted' /\ emitted'[j] = E[j]
      /\ \A j \in 1..n : /\ e + j \in DOMAIN emitted'
                         /\ emitted'[e + j].call = s[j]
                         /\ emitted'[e + j].conv = q
      /\ \A i \in DOMAIN emitted' : i \in 1..e \/ \E j \in 1..n : i = e + j
  BY RespondEffect
<1>3. \A j \in 1..e : E[j].conv \in Convs
  BY <1>2, QueueTypes DEF IInv
<1>4. \A j \in 1..e : answers[E[j].call] = 0 =>
          turn_state[E[j].conv] = "tools" /\ E[j].call \in remaining_calls[E[j].conv]
  BY <1>2 DEF ResultsInv
<1> HIDE DEF E, e, n
<1>5. \A r \in Convs : r # q => turn_state'[r] = turn_state[r] /\ remaining_calls'[r] = remaining_calls[r]
  BY <1>1 DEF IInv, TypeOK
<1>6. turn_state'[q] = "tools" /\ remaining_calls'[q] = ToSet(s)
  BY <1>1 DEF IInv, TypeOK
<1>7. ASSUME NEW i \in DOMAIN emitted', answers'[emitted'[i].call] = 0
      PROVE  /\ turn_state'[emitted'[i].conv] = "tools"
             /\ emitted'[i].call \in remaining_calls'[emitted'[i].conv]
  <2>1. CASE i \in 1..e
    <3>1. emitted'[i] = E[i] /\ E[i].conv \in Convs
      BY <1>2, <1>3, <2>1
    <3>2. turn_state[E[i].conv] = "tools" /\ E[i].call \in remaining_calls[E[i].conv]
      BY <1>1, <1>4, <1>7, <2>1, <3>1
    <3>3. E[i].conv # q
      BY <1>1, <3>2
    <3> QED
      BY <1>5, <3>1, <3>2, <3>3
  <2>2. ASSUME NEW j \in 1..n, i = e + j
        PROVE  /\ turn_state'[emitted'[i].conv] = "tools"
               /\ emitted'[i].call \in remaining_calls'[emitted'[i].conv]
    BY <1>1, <1>2, <1>6, <2>2
  <2> QED
    BY <1>2, <2>1, <2>2
<1> QED
  BY <1>7 DEF ResultsInv

(* Every step keeps what is said of the results. *)
LEMMA NextResults == IInv /\ CallsInv /\ ResultsInv /\ [Next]_vars => ResultsInv'
<1> SUFFICES ASSUME IInv, CallsInv, ResultsInv, [Next]_vars PROVE ResultsInv'
  OBVIOUS
<1>1. CASE Drain
  <2>1. PICK k \in Startable : Start(k)
    BY <1>1 DEF Drain
  <2>2. PICK c \in Calls : answers' \in {answers, [answers EXCEPT ![c] = @ + 1]}
    BY <2>1, QueueTypes DEF Start, Startable, IInv
  <2>3. UNCHANGED <<turn_state, remaining_calls, emitted>>
    BY <2>1 DEF Start, turns
  <2> QED
    BY <2>2, <2>3, AnswersGrow, ResultsKept DEF IInv
<1>2. CASE DrainEnd \/ Gone \/ Done \/ ClearTracking
  BY <1>2, ResultsKept DEF DrainEnd, Gone, Done, ClearTracking, history, turns
<1>3. CASE FailCall \/ \E d \in Calls : ToolResult(d) \/ ToolRequest(d)
  <2>1. UNCHANGED <<turn_state, remaining_calls, emitted>>
    BY <1>3 DEF FailCall, ToolResult, ToolRequest, turns
  <2>2. \E c \in Calls : answers' \in {answers, [answers EXCEPT ![c] = @ + 1]}
    BY <1>3, TopOfStack DEF FailCall, ToolResult, ToolRequest, IInv
  <2> QED
    BY <2>1, <2>2, AnswersGrow, ResultsKept DEF IInv
<1>4. CASE CompleteTurn
  BY <1>4, ResultsComplete
<1>5. CASE \E q \in Convs : \E s \in Responses : RespondWithCalls(q, s)
  BY <1>5, ResultsRespond
<1>6. CASE \/ \E c \in Conns : Disconnect(c)
           \/ \E c \in Conns, t \in Tools : ToolRegister(c, t)
           \/ \E d \in Calls : DuplicateResult(d)
           \/ UNCHANGED vars
  BY <1>6, ResultsKept DEF Disconnect, ToolRegister, DuplicateResult, vars, history, turns
<1>7. CASE \/ Prompt
           \/ CancelPrompt
           \/ \E q \in Convs : RespondWithText(q)
           \/ \E d \in Calls, q \in Convs : ExtAgentQuery(d, q)
  <2>1. /\ UNCHANGED <<remaining_calls, emitted, answers>>
        /\ \E q \in Convs, t \in {"idle", "none", "thinking"} :
              turn_state[q] # "tools" /\ turn_state' = [turn_state EXCEPT ![q] = t]
    BY <1>7, ToolSchedulerAssumption DEF Prompt, CancelPrompt, RespondWithText, ExtAgentQuery, history
  <2>2. \A q \in Convs : turn_state[q] = "tools" => turn_state'[q] = "tools"
    BY <2>1 DEF IInv, TypeOK
  <2> QED
    BY <2>1, <2>2, ResultsKept
<1>8. CASE SwitchSession
  BY <1>8 DEF SwitchSession, ResultsInv
<1> QED
  BY <1>1, <1>2, <1>3, <1>4, <1>5, <1>6, <1>7, <1>8 DEF Next, Handler

-----------------------------------------------------------------------------
(* What could start has a loop that will start it.                         *)

(* The same queue and the same running calls let the same calls start. *)
LEMMA StartableKept ==
    ASSUME UNCHANGED <<pending_tool_invocations, in_flight_tool_kinds>>,
           \A d \in Calls : in_flight_tool_kinds[d] # "none" =>
               tool_conversations'[d] = tool_conversations[d]
    PROVE  Startable' = Startable
<1>1. \A q : InFlightFor(q)' = InFlightFor(q)
  BY DEF InFlightFor
<1> SUFFICES ASSUME NEW k \in DOMAIN pending_tool_invocations
             PROVE  (IsFirst(k) /\ Compatible(pending_tool_invocations[k]))' <=>
                    (IsFirst(k) /\ Compatible(pending_tool_invocations[k]))
  BY DEF Startable
<1>2. IsFirst(k)' <=> IsFirst(k)
  BY DEF IsFirst
<1>3. Compatible(pending_tool_invocations[k])' <=> Compatible(pending_tool_invocations[k])
  BY <1>1 DEF Compatible
<1> QED
  BY <1>2, <1>3

(* A step that is not the loop's leaves the loops that are to be run.       *)
LEMMA ServedTail ==
    ASSUME IInv, CallsInv, ServedInv, work # <<>>, Head(work).op # "drain", work' = Tail(work),
           UNCHANGED <<pending_tool_invocations, in_flight_tool_kinds>>,
           \A d \in Calls : in_flight_tool_kinds[d] # "none" =>
               tool_conversations'[d] = tool_conversations[d]
    PROVE  ServedInv'
<1>1. work \in Seq(Step) /\ Stack(work)
  BY QueueTypes DEF IInv, CallsInv
<1>2. At(work, "drain", None) => At(work', "drain", None)
  <2> HIDE DEF Step
  <2> QED
    BY <1>1, Popped
<1> QED
  BY <1>2, StartableKept DEF ServedInv

(* Taking calls from the queue of a turn that has none lets no call start. *)
LEMMA ServedCancel ==
    ASSUME IInv, CallsInv, TurnInv, Startable = {}, CancelPrompt
    PROVE  Startable' = {}
<1>1. PICK g : /\ Embeds(pending_tool_invocations', pending_tool_invocations, g)
               /\ \A j \in DOMAIN pending_tool_invocations :
                     pending_tool_invocations[j].conv # Default =>
                         \E a \in DOMAIN pending_tool_invocations' : g[a] = j
  BY Cancelled DEF IInv
<1>2. /\ \A j \in DOMAIN pending_tool_invocations : \E a \in DOMAIN pending_tool_invocations' : g[a] = j
      /\ UNCHANGED in_flight_tool_kinds
      /\ \A d \in Calls : tool_conversations'[d] = tool_conversations[d]
  <2>1. Queued(Default) = {} /\ \A d \in Calls : tool_conversations'[d] = tool_conversations[d]
    BY TurnCancel
  <2>2. \A j \in DOMAIN pending_tool_invocations : pending_tool_invocations[j].conv # Default
    BY <2>1 DEF Queued
  <2>3. UNCHANGED in_flight_tool_kinds
    BY DEF CancelPrompt
  <2> QED
    BY <1>1, <2>1, <2>2, <2>3
<1>3. \A q : InFlightFor(q)' = InFlightFor(q)
  BY <1>2 DEF InFlightFor
<1> SUFFICES ASSUME NEW a \in DOMAIN pending_tool_invocations', IsFirst(a)',
                    Compatible(pending_tool_invocations[a])'
             PROVE  g[a] \in Startable
  BY DEF Startable
<1>4. /\ g[a] \in DOMAIN pending_tool_invocations
      /\ pending_tool_invocations'[a] = pending_tool_invocations[g[a]]
  BY <1>1 DEF Embeds
<1>5. Compatible(pending_tool_invocations[g[a]])
  <2> DEFINE x == pending_tool_invocations[g[a]]
  <2>1. \A d \in InFlightFor(pending_tool_invocations[a].conv)' :
            pending_tool_invocations'[a].kind = "pure" /\ in_flight_tool_kinds'[d] = "pure"
    BY DEF Compatible
  <2>2. \A d \in InFlightFor(x.conv) : x.kind = "pure" /\ in_flight_tool_kinds[d] = "pure"
    BY <1>2, <1>4, <2>1 DEF InFlightFor
  <2> QED
    BY <2>2 DEF Compatible
<1>6. IsFirst(g[a])
  <2>1. /\ pending_tool_invocations \in Seq(Entry)
        /\ DOMAIN pending_tool_invocations = 1..Len(pending_tool_invocations)
        /\ Len(pending_tool_invocations) \in Nat
    BY QueueTypes DEF IInv
  <2>2. DOMAIN pending_tool_invocations' = 1..Len(pending_tool_invocations') /\ Len(pending_tool_invocations') \in Nat
    <3>1. pending_tool_invocations' \in Seq(Entry)
      BY CancelQueue DEF IInv
    <3> HIDE DEF Entry
    <3> QED
      BY <3>1
  <2> SUFFICES ASSUME NEW j \in 1..(g[a] - 1)
               PROVE  pending_tool_invocations[j].conv # pending_tool_invocations[g[a]].conv
    BY DEF IsFirst
  <2>3. j \in DOMAIN pending_tool_invocations /\ j < g[a]
    BY <1>4, <2>1
  <2>4. PICK b \in DOMAIN pending_tool_invocations' : g[b] = j
    BY <1>2, <2>3
  <2>5. pending_tool_invocations'[b] = pending_tool_invocations[j]
    BY <1>1, <2>4 DEF Embeds
  <2>6. b < a
    <3>1. ~(a < b) /\ a # b
      <4>1. a < b => g[a] < g[b]
        BY <1>1 DEF Embeds
      <4> QED
        BY <1>4, <2>1, <2>3, <2>4, <4>1
    <3> QED
      BY <2>2, <3>1
  <2>7. b \in 1..(a - 1)
    BY <2>2, <2>6
  <2>8. pending_tool_invocations'[b].conv # pending_tool_invocations'[a].conv
    BY <2>7 DEF IsFirst
  <2> QED
    BY <1>4, <2>5, <2>8
<1> QED
  BY <1>4, <1>5, <1>6 DEF Startable

(* Every step leaves a loop for what could start. *)
LEMMA NextServed == IInv /\ CallsInv /\ TurnInv /\ ServedInv /\ [Next]_vars => ServedInv'
<1> SUFFICES ASSUME IInv, CallsInv, TurnInv, ServedInv, [Next]_vars PROVE ServedInv'
  OBVIOUS
<1>1. CASE Drain
  <2>1. PICK k \in Startable : Start(k)
    BY <1>1 DEF Drain
  <2>2. k \in DOMAIN pending_tool_invocations /\ NextIs("drain")
    BY <1>1, <2>1 DEF Drain, Startable
  <2>3. \A o, e : At(work, o, e) => At(work', o, e)
    BY <2>1, <2>2, StartEffect
  <2> QED
    BY <2>1, <2>3 DEF ServedInv
<1>2. CASE DrainEnd
  <2>1. Startable' = Startable /\ Startable = {}
    BY <1>2, StartableKept DEF DrainEnd, tracking
  <2> QED
    BY <2>1 DEF ServedInv
<1>3. CASE Done
  <2>1. /\ work \in Seq(Step) /\ work # <<>> /\ Stack(work)
        /\ Head(work).op = "done" /\ work' = Tail(work)
    BY <1>3, QueueTypes DEF IInv, CallsInv, Done, NextIs
  <2>2. At(work', "drain", None)
    <3> HIDE DEF Step
    <3> QED
      BY <2>1, Popped
  <2> QED
    BY <2>2 DEF ServedInv
<1>4. CASE ClearTracking
  <2>1. PICK c : c = Head(work).call
    OBVIOUS
  <2>2. /\ work # <<>> /\ Head(work).op = "clear" /\ work' = Tail(work)
        /\ UNCHANGED <<pending_tool_invocations, in_flight_tool_kinds>>
        /\ tool_conversations' = [tool_conversations EXCEPT ![c] = None]
    BY <1>4, <2>1 DEF ClearTracking, NextIs
  <2>3. in_flight_tool_kinds[c] = "none"
    BY <2>1, <2>2, Completing
  <2>4. \A d \in Calls : in_flight_tool_kinds[d] # "none" =>
            tool_conversations'[d] = tool_conversations[d]
    BY <2>2, <2>3 DEF IInv, TypeOK
  <2> QED
    BY <2>2, <2>4, ServedTail
<1>5. CASE CompleteTurn \/ Gone
  BY <1>5, ServedTail DEF CompleteTurn, Gone, NextIs, tracking
<1>6. CASE FailCall
  <2>1. PICK c : c = Head(work).call
    OBVIOUS
  <2>2. /\ work \in Seq(Step) /\ work # <<>> /\ Stack(work) /\ Head(work).op = "fail"
        /\ c \in Calls /\ Tail(work) \in Seq(Step) /\ work' = Completion(c) \o Tail(work)
    BY <1>6, <2>1, QueueTypes, TopOfStack DEF IInv, CallsInv, NextIs, FailCall
  <2>3. At(work, "fail", c)
    <3>1. 1 \in DOMAIN work /\ work[1] = Head(work)
      BY <2>2
    <3> QED
      BY <2>1, <2>2, <3>1 DEF At
  <2>4. Stack(Tail(work)) /\ \A o, d : At(Tail(work), o, d) => At(work, o, d)
    <3> HIDE DEF Step
    <3> QED
      BY <2>2, Popped
  <2>5. ~At(Tail(work), "clear", c)
    BY <2>2, <2>3, <2>4 DEF CallsInv, Tracked
  <2>6. At(work', "drain", None)
    BY <2>2, <2>4, <2>5, Pushed
  <2> QED
    BY <2>6 DEF ServedInv
<1>7. CASE \/ \E d \in Calls : ToolResult(d)
           \/ \E q \in Convs : \E s \in Responses : RespondWithCalls(q, s)
  <2>1. At(work', "drain", None)
    <3>1. CASE \E d \in Calls : ToolResult(d)
      BY <3>1, FirstStacks DEF ToolResult
    <3>2. CASE \E q \in Convs : \E s \in Responses : RespondWithCalls(q, s)
      BY <3>2, FirstStacks DEF RespondWithCalls
    <3> QED
      BY <1>7, <3>1, <3>2
  <2> QED
    BY <2>1 DEF ServedInv
<1>8. CASE \/ \E d \in Calls : ToolRequest(d)
           \/ \E c \in Conns : Disconnect(c)
           \/ \E c \in Conns, t \in Tools : ToolRegister(c, t)
           \/ Prompt
           \/ \E q \in Convs : RespondWithText(q)
           \/ \E d \in Calls, q \in Convs : ExtAgentQuery(d, q)
           \/ \E d \in Calls : DuplicateResult(d)
  <2>1. work = <<>> /\ UNCHANGED <<pending_tool_invocations, in_flight_tool_kinds>>
    BY <1>8 DEF ToolRequest, Disconnect, ToolRegister, Prompt, RespondWithText, ExtAgentQuery,
                DuplicateResult, Idle, tracking, vars
  <2>2. \A d \in Calls : in_flight_tool_kinds[d] # "none" => tool_conversations'[d] = tool_conversations[d]
    <3>1. CASE \E d \in Calls : ToolRequest(d)
      <4>1. PICK c \in Calls : ToolRequest(c)
        BY <3>1
      <4>2. in_flight_tool_kinds[c] = "none"
        BY <4>1 DEF ToolRequest, IInv, FreshIsUnused
      <4>3. tool_conversations' \in {tool_conversations, [tool_conversations EXCEPT ![c] = Default]}
        BY <4>1 DEF ToolRequest
      <4> QED
        BY <4>2, <4>3 DEF IInv, TypeOK
    <3>2. CASE ~ \E d \in Calls : ToolRequest(d)
      BY <1>8, <3>2 DEF Disconnect, ToolRegister, Prompt, RespondWithText, ExtAgentQuery,
                        DuplicateResult, tracking, vars
    <3> QED
      BY <3>1, <3>2
  <2>3. Startable' = Startable
    BY <2>1, <2>2, StartableKept
  <2> QED
    BY <2>1, <2>3, FirstStacks DEF ServedInv
<1>9. CASE CancelPrompt
  <2>1. Startable = {}
    BY <1>9, FirstStacks DEF CancelPrompt, Idle, ServedInv
  <2> QED
    BY <1>9, <2>1, ServedCancel DEF ServedInv
<1>10. CASE SwitchSession
  BY <1>10 DEF SwitchSession, ServedInv, Startable
<1>11. CASE UNCHANGED vars
  <2>1. Startable' = Startable /\ work' = work
    BY <1>11, StartableKept DEF vars
  <2> QED
    BY <2>1 DEF ServedInv
<1> QED
  BY <1>1, <1>2, <1>3, <1>4, <1>5, <1>6, <1>7, <1>8, <1>9, <1>10, <1>11 DEF Next, Handler

-----------------------------------------------------------------------------
(* In which order calls start.                                             *)

(* The first startable call was emitted after those that started and        *)
(* before those that wait. *)
LEMMA OrderStart ==
    ASSUME IInv, CallsInv, OrderInv, NextIs("drain"), NEW k \in Startable, Start(k)
    PROVE  OrderInv'
<1> DEFINE Q == pending_tool_invocations
           c == Q[k].call
           n == Len(started)
<1>1. /\ k \in DOMAIN Q /\ c \in Calls /\ started \in Seq(Calls) /\ Q \in Seq(Entry)
      /\ started' = Append(started, c) /\ emitted' = emitted
  BY QueueTypes DEF Startable, Start, IInv
<1>2. PICK g :
          /\ Embeds(pending_tool_invocations', pending_tool_invocations, g)
          /\ \A a \in DOMAIN pending_tool_invocations' : g[a] # k
          /\ \A j \in DOMAIN pending_tool_invocations :
                j = k \/ \E a \in DOMAIN pending_tool_invocations' : g[a] = j
  BY <1>1, StartQueue DEF IInv
<1>3. /\ n \in Nat /\ DOMAIN started = 1..n /\ DOMAIN started' = 1..(n + 1)
      /\ \A j \in 1..n : started'[j] = started[j]
      /\ started'[n + 1] = c
      /\ \A j \in 1..(n + 1) : j \in 1..n \/ j = n + 1
  <2> HIDE DEF c
  <2> QED
    BY <1>1
<1>4. DOMAIN Q = 1..Len(Q) /\ Len(Q) \in Nat
  <2> HIDE DEF Entry, Q
  <2> QED
    BY <1>1
(* What waits before the call that starts is of another conversation.       *)
<1>5. ASSUME NEW j \in DOMAIN Q, j < k
      PROVE  Before(emitted, c, Q[j].call)
  <2>1. Q[j].conv # Q[k].conv
    <3>1. j \in 1..(k - 1)
      BY <1>1, <1>4, <1>5
    <3> QED
      BY <3>1 DEF Startable, IsFirst
  <2>2. \A i \in DOMAIN Q, m \in DOMAIN emitted :
            emitted[m].call = Q[i].call => emitted[m].conv = Q[i].conv
    BY DEF CallsInv, QueueInv, FreshInv
  <2> QED
    BY <1>1, <2>1, <2>2 DEF Before
<1>6. \A a \in DOMAIN pending_tool_invocations' :
          /\ g[a] \in DOMAIN Q /\ g[a] # k
          /\ pending_tool_invocations'[a] = Q[g[a]]
  BY <1>2 DEF Embeds
<1>7. \A a, b \in DOMAIN pending_tool_invocations' : a < b => g[a] < g[b]
  BY <1>2 DEF Embeds
<1>8. /\ \A i, j \in 1..n : i < j => Before(emitted, started[i], started[j])
      /\ \A i \in 1..n, j \in DOMAIN Q : Before(emitted, started[i], Q[j].call)
      /\ \A i, j \in DOMAIN Q : i < j => Before(emitted, Q[i].call, Q[j].call)
  BY <1>3 DEF OrderInv
<1>9. \A j \in DOMAIN Q : j # k => Before(emitted, c, Q[j].call)
  <2> SUFFICES ASSUME NEW j \in DOMAIN Q, j # k PROVE Before(emitted, c, Q[j].call)
    OBVIOUS
  <2>1. j < k \/ k < j
    BY <1>1, <1>4
  <2> QED
    BY <1>1, <1>5, <1>8, <2>1
<1> HIDE DEF Q, c, n
<1>10. ASSUME NEW i \in 1..(n + 1), NEW j \in 1..(n + 1), i < j
       PROVE  Before(emitted, started'[i], started'[j])
  <2>1. i \in 1..n
    BY <1>3, <1>10
  <2>2. CASE j \in 1..n
    BY <1>3, <1>8, <1>10, <2>1, <2>2
  <2>3. CASE j = n + 1
    <3>1. started'[j] = Q[k].call /\ started'[i] = started[i] /\ k \in DOMAIN Q
      BY <1>1, <1>3, <2>1, <2>3 DEF c
    <3> QED
      BY <1>8, <2>1, <3>1
  <2> QED
    BY <1>3, <2>2, <2>3
<1>11. ASSUME NEW i \in 1..(n + 1), NEW a \in DOMAIN pending_tool_invocations'
       PROVE  Before(emitted, started'[i], pending_tool_invocations'[a].call)
  <2>1. g[a] \in DOMAIN Q /\ g[a] # k /\ pending_tool_invocations'[a] = Q[g[a]]
    BY <1>6
  <2>2. CASE i \in 1..n
    BY <1>3, <1>8, <2>1, <2>2
  <2>3. CASE i = n + 1
    BY <1>3, <1>9, <2>1, <2>3
  <2> QED
    BY <1>3, <2>2, <2>3
<1>12. ASSUME NEW a \in DOMAIN pending_tool_invocations', NEW b \in DOMAIN pending_tool_invocations', a < b
       PROVE  Before(emitted, pending_tool_invocations'[a].call, pending_tool_invocations'[b].call)
  BY <1>6, <1>7, <1>8, <1>12
<1> QED
  BY <1>1, <1>3, <1>10, <1>11, <1>12 DEF OrderInv

(* What starts later in the queue of the other conversations. *)
LEMMA OrderCancel ==
    ASSUME IInv, OrderInv, CancelPrompt
    PROVE  OrderInv'
<1>1. PICK g : Embeds(pending_tool_invocations', pending_tool_invocations, g)
  BY Cancelled DEF IInv
<1>2. /\ \A a \in DOMAIN pending_tool_invocations' :
            /\ g[a] \in DOMAIN pending_tool_invocations
            /\ pending_tool_invocations'[a] = pending_tool_invocations[g[a]]
      /\ \A a, b \in DOMAIN pending_tool_invocations' : a < b => g[a] < g[b]
  BY <1>1 DEF Embeds
<1>3. started' = started /\ emitted' = emitted
  BY DEF CancelPrompt, history
<1> QED
  BY <1>2, <1>3 DEF OrderInv

(* The calls of a response come after all others, in their order. *)
LEMMA OrderRespond ==
    ASSUME IInv, CallsInv, OrderInv, NEW q \in Convs, NEW s \in Responses, RespondWithCalls(q, s)
    PROVE  OrderInv'
<1> DEFINE Q == pending_tool_invocations
           E == emitted
           l == Len(Q)
           e == Len(E)
           n == Len(s)
<1>1. \A k \in 1..n : s[k] \in fresh
  BY RespondEffect
<1>2. n \in Nat \ {0}
  BY RespondEffect
<1>3. \A j, k \in 1..n : s[j] = s[k] => j = k
  BY RespondEffect
<1>4. started' = started
  BY RespondEffect
<1>5. /\ l \in Nat /\ DOMAIN Q = 1..l
      /\ \A j \in 1..l : j \in DOMAIN pending_tool_invocations' /\ pending_tool_invocations'[j] = Q[j]
      /\ \A j \in 1..n : /\ l + j \in DOMAIN pending_tool_invocations'
                         /\ pending_tool_invocations'[l + j].call = s[j]
                         /\ pending_tool_invocations'[l + j].conv = q
      /\ \A i \in DOMAIN pending_tool_invocations' : i \in 1..l \/ \E j \in 1..n : i = l + j
  BY RespondEffect
<1>6. /\ e \in Nat /\ DOMAIN E = 1..e
      /\ \A j \in 1..e : j \in DOMAIN emitted' /\ emitted'[j] = E[j]
      /\ \A j \in 1..n : /\ e + j \in DOMAIN emitted'
                         /\ emitted'[e + j].call = s[j]
                         /\ emitted'[e + j].conv = q
      /\ \A i \in DOMAIN emitted' : i \in 1..e \/ \E j \in 1..n : i = e + j
  BY RespondEffect
<1>7. /\ \A j \in 1..l : Q[j].call \notin fresh
      /\ \A j \in 1..e : E[j].call \notin fresh
  BY RespondEffect
<1>8. \A j \in DOMAIN started : started[j] \notin fresh
  BY DEF CallsInv, FreshInv
<1>9. /\ \A j, k \in DOMAIN started : j < k => Before(E, started[j], started[k])
      /\ \A j \in DOMAIN started, k \in 1..l : Before(E, started[j], Q[k].call)
      /\ \A j, k \in 1..l : j < k => Before(E, Q[j].call, Q[k].call)
  BY <1>5 DEF OrderInv
<1> HIDE DEF Q, E, l, e, n
(* Where a call was emitted, old or new. *)
<1>10. ASSUME NEW m \in DOMAIN emitted', emitted'[m].call \notin fresh
       PROVE  m \in 1..e /\ m \in DOMAIN E /\ emitted'[m] = E[m]
  <2>1. ASSUME NEW j \in 1..n, m = e + j
        PROVE  FALSE
    BY <1>1, <1>6, <1>10, <2>1
  <2> QED
    BY <1>6, <2>1
<1>11. ASSUME NEW m \in DOMAIN emitted', NEW j \in 1..n, emitted'[m].call = s[j]
       PROVE  m = e + j
  <2>1. CASE m \in 1..e
    BY <1>1, <1>6, <1>7, <1>11, <2>1
  <2>2. ASSUME NEW i \in 1..n, m = e + i
        PROVE  m = e + j
    <3>1. s[i] = s[j]
      BY <1>6, <1>11, <2>2
    <3> QED
      BY <1>3, <2>2, <3>1
  <2> QED
    BY <1>6, <2>1, <2>2
<1>12. \A x, y : x \notin fresh /\ y \notin fresh /\ Before(E, x, y) => Before(emitted', x, y)
  <2> SUFFICES ASSUME NEW x, NEW y, x \notin fresh, y \notin fresh, Before(E, x, y),
                      NEW m \in DOMAIN emitted', NEW i \in DOMAIN emitted',
                      emitted'[m].call = x, emitted'[i].call = y, emitted'[m].conv = emitted'[i].conv
               PROVE  m < i
    BY DEF Before
  <2>1. m \in DOMAIN E /\ emitted'[m] = E[m] /\ i \in DOMAIN E /\ emitted'[i] = E[i]
    BY <1>10
  <2> QED
    BY <2>1 DEF Before
<1>13. \A x : \A j \in 1..n : x \notin fresh => Before(emitted', x, s[j])
  <2> SUFFICES ASSUME NEW x, NEW j \in 1..n, x \notin fresh,
                      NEW m \in DOMAIN emitted', NEW i \in DOMAIN emitted',
                      emitted'[m].call = x, emitted'[i].call = s[j]
               PROVE  m < i
    BY DEF Before
  <2>1. m \in 1..e /\ i = e + j
    BY <1>10, <1>11
  <2> QED
    BY <1>2, <1>6, <2>1
<1>14. \A j, k \in 1..n : j < k => Before(emitted', s[j], s[k])
  <2> SUFFICES ASSUME NEW j \in 1..n, NEW k \in 1..n, j < k,
                      NEW m \in DOMAIN emitted', NEW i \in DOMAIN emitted',
                      emitted'[m].call = s[j], emitted'[i].call = s[k]
               PROVE  m < i
    BY DEF Before
  <2>1. m = e + j /\ i = e + k
    BY <1>11
  <2> QED
    BY <1>2, <1>6, <2>1
<1>15. ASSUME NEW i \in DOMAIN started, NEW a \in DOMAIN pending_tool_invocations'
       PROVE  Before(emitted', started[i], pending_tool_invocations'[a].call)
  <2>1. CASE a \in 1..l
    BY <1>5, <1>7, <1>8, <1>9, <1>12, <2>1
  <2>2. ASSUME NEW j \in 1..n, a = l + j
        PROVE  Before(emitted', started[i], pending_tool_invocations'[a].call)
    BY <1>5, <1>8, <1>13, <2>2
  <2> QED
    BY <1>5, <2>1, <2>2
<1>16. ASSUME NEW a \in DOMAIN pending_tool_invocations', NEW b \in DOMAIN pending_tool_invocations', a < b
       PROVE  Before(emitted', pending_tool_invocations'[a].call, pending_tool_invocations'[b].call)
  <2>1. CASE a \in 1..l /\ b \in 1..l
    BY <1>5, <1>7, <1>9, <1>12, <1>16, <2>1
  <2>2. ASSUME a \in 1..l, NEW j \in 1..n, b = l + j
        PROVE  Before(emitted', pending_tool_invocations'[a].call, pending_tool_invocations'[b].call)
    BY <1>5, <1>7, <1>13, <2>2
  <2>3. ASSUME NEW i \in 1..n, a = l + i, NEW j \in 1..n, b = l + j
        PROVE  Before(emitted', pending_tool_invocations'[a].call, pending_tool_invocations'[b].call)
    <3>1. i < j
      BY <1>2, <1>5, <1>16, <2>3
    <3>2. pending_tool_invocations'[a].call = s[i] /\ pending_tool_invocations'[b].call = s[j]
      BY <1>5, <2>3
    <3> QED
      BY <1>14, <3>1, <3>2
  <2>4. ASSUME NEW i \in 1..n, a = l + i, b \in 1..l
        PROVE  FALSE
    BY <1>2, <1>5, <1>16, <2>4
  <2> QED
    BY <1>5, <2>1, <2>2, <2>3, <2>4
<1>17. ASSUME NEW i \in DOMAIN started, NEW j \in DOMAIN started, i < j
       PROVE  Before(emitted', started[i], started[j])
  BY <1>8, <1>9, <1>12, <1>17
<1> QED
  BY <1>4, <1>15, <1>16, <1>17 DEF OrderInv

(* Every step keeps the order. *)
LEMMA NextOrder == IInv /\ CallsInv /\ OrderInv /\ [Next]_vars => OrderInv'
<1> SUFFICES ASSUME IInv, CallsInv, OrderInv, [Next]_vars PROVE OrderInv'
  OBVIOUS
<1>1. CASE Drain
  BY <1>1, OrderStart DEF Drain
<1>2. CASE \E q \in Convs : \E s \in Responses : RespondWithCalls(q, s)
  BY <1>2, OrderRespond
<1>3. CASE CancelPrompt
  BY <1>3, OrderCancel
<1>4. CASE SwitchSession
  BY <1>4 DEF SwitchSession, OrderInv
<1>5. CASE UNCHANGED <<pending_tool_invocations, emitted, started>>
  BY <1>5 DEF OrderInv
<1> QED
  BY <1>1, <1>2, <1>3, <1>4, <1>5
     DEF Next, Handler, DrainEnd, Done, CompleteTurn, ClearTracking, FailCall, Gone, ToolRegister, Prompt,
         RespondWithText, ExtAgentQuery, ToolResult, DuplicateResult, ToolRequest, Disconnect,
         history, vars

(* The scheduling rule holds in every state, those in the middle of a nested *)
(* completion included.                                                    *)
THEOREM MutatingCallsRunAlone == Spec => []MutatingRunsAlone
<1>1. IInv => MutatingRunsAlone
  BY DEF IInv
<1> QED
  BY <1>1, Invariance, PTL

(* A session switch forgets the calls of the old session: no late result     *)
(* finds a turn of the new one to complete.                                *)
THEOREM OldSessionsAreForgotten == Spec => []OldCallsAreForgotten
<1>1. IInv => OldCallsAreForgotten
  BY DEF IInv
<1> QED
  BY <1>1, Invariance, PTL

(* The calls of a conversation start in the order they were emitted, and when *)
(* a handler is done the queue holds no call that could run.               *)
THEOREM QueueStaysServed == Spec => []QueueIsServed
<1> DEFINE Inv == IInv /\ CallsInv /\ TurnInv /\ OrderInv /\ ServedInv
<1>1. Init => CallsInv /\ TurnInv /\ OrderInv /\ ServedInv
  <2>1. Init => OrderInv /\ ServedInv
    BY DEF Init, OrderInv, ServedInv, Startable
  <2> QED
    BY <2>1, InitCalls, InitTurn
<1>2. IInv /\ CallsInv /\ TurnInv /\ OrderInv /\ ServedInv /\ [Next]_vars =>
          (CallsInv /\ TurnInv /\ OrderInv /\ ServedInv)'
  BY NextCalls, NextTurn, NextOrder, NextServed
<1>3. OrderInv /\ ServedInv => QueueIsServed
  <2>1. OrderInv => StartedInOrder
    BY DEF OrderInv, Before, StartedInOrder
  <2>2. ServedInv => NothingStartableIsLeft
    BY FirstStacks DEF ServedInv, NothingStartableIsLeft, Idle
  <2> QED
    BY <2>1, <2>2 DEF QueueIsServed
<1> QED
  BY <1>1, <1>2, <1>3, Invariance, PTL DEF Spec

(* A turn waits for exactly what is queued or at a provider, no call gets two *)
(* results, and the agent goes on only with the results of all its calls:   *)
(* whatever fails, disconnects, is cancelled or is answered again.          *)
THEOREM TurnsStayWhole == Spec => []TurnsAreWhole
<1>1. Init => CallsInv /\ TurnInv /\ ResultsInv
  <2>1. Init => ResultsInv
    BY DEF Init, ResultsInv
  <2> QED
    BY <2>1, InitCalls, InitTurn
<1>2. IInv /\ CallsInv /\ TurnInv /\ ResultsInv /\ [Next]_vars => (CallsInv /\ TurnInv /\ ResultsInv)'
  BY NextCalls, NextTurn, NextResults
<1>3. IInv /\ CallsInv /\ TurnInv /\ ResultsInv => TurnsAreWhole
  <2> SUFFICES ASSUME IInv, CallsInv, TurnInv, ResultsInv PROVE TurnsAreWhole
    OBVIOUS
  <2>1. AnsweredOnce
    BY DEF CallsInv, Tracked, AnsweredOnce
  <2>2. PromptedWithResults
    BY QueueTypes DEF IInv, CallsInv, Tracked, ResultsInv, PromptedWithResults
  <2>3. TurnWaitsForItsCalls
    <3> SUFFICES ASSUME work = <<>>, NEW q \in Convs
                 PROVE  /\ Queued(q) \cap InFlightFor(q) = {}
                        /\ IF turn_state[q] = "tools"
                           THEN remaining_calls[q] # {} /\ remaining_calls[q] = Queued(q) \cup InFlightFor(q)
                           ELSE Queued(q) = {} /\ InFlightFor(q) = {}
                        /\ \A d \in InFlightFor(q) : pending_tool_providers[d] # None
      BY DEF TurnWaitsForItsCalls, Idle
    <3>1. q # None
      BY ToolSchedulerAssumption
    <3>2. \A o, d : ~At(work, o, d)
      BY FirstStacks
    <3>3. Outstanding(q) = InFlightFor(q)
      BY <3>2 DEF Outstanding, Waited, InFlightFor
    <3>4. Queued(q) \cap InFlightFor(q) = {}
      BY <3>1 DEF CallsInv, QueueInv, Queued, InFlightFor
    <3>5. \A d \in InFlightFor(q) : pending_tool_providers[d] # None
      BY <3>1, <3>2 DEF CallsInv, Tracked, InFlightFor
    <3> QED
      BY <3>3, <3>4, <3>5 DEF TurnInv
  <2> QED
    BY <2>1, <2>2, <2>3 DEF TurnsAreWhole
<1> QED
  BY <1>1, <1>2, <1>3, Invariance, PTL DEF Spec

=============================================================================
