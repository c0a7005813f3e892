------------------------- MODULE RaiseManagerProofs -------------------------
(***************************************************************************)
(* The safety of RaiseManager, for any windows, applications and requests, *)
(* and any number of them.                                                 *)
(***************************************************************************)
EXTENDS RaiseManager, Integers, SequenceTheorems, TLAPS

(* Sequences and batches *)

LEMMA RangeAppend ==
  ASSUME NEW S, NEW s \in Seq(S), NEW e \in S
  PROVE  Range(Append(s, e)) = Range(s) \cup {e}
<1>. DEFINE t == Append(s, e)
<1>1. /\ t \in Seq(S) /\ Len(t) = Len(s) + 1 /\ Len(s) \in Nat
      /\ DOMAIN t = 1..Len(t) /\ DOMAIN s = 1..Len(s)
  BY AppendProperties, LenProperties
<1>2. (\A i \in DOMAIN s : t[i] = s[i]) /\ t[Len(s) + 1] = e
  BY <1>1, AppendProperties
<1>3. DOMAIN t = DOMAIN s \cup {Len(s) + 1}
  BY <1>1
<1>. HIDE DEF t
<1>. QED  BY <1>2, <1>3 DEF Range

LEMMA TailProperties ==
  ASSUME NEW S, NEW s \in Seq(S), s # <<>>
  PROVE  /\ Tail(s) \in Seq(S) /\ Head(s) \in S /\ Head(s) = s[1]
         /\ DOMAIN s = 1..Len(s) /\ Len(s) \in Nat /\ 1 \in DOMAIN s
         /\ DOMAIN Tail(s) = 1..(Len(s) - 1)
         /\ \A i \in DOMAIN Tail(s) : i + 1 \in DOMAIN s /\ Tail(s)[i] = s[i + 1]
         /\ Range(s) = Range(Tail(s)) \cup {Head(s)}
<1>1. /\ Tail(s) \in Seq(S) /\ Head(s) \in S /\ Head(s) = s[1]
      /\ Len(Tail(s)) = Len(s) - 1 /\ Len(s) \in Nat \ {0}
      /\ \A i \in 1..Len(Tail(s)) : Tail(s)[i] = s[i + 1]
  BY HeadTailProperties, EmptySeq
<1>2. DOMAIN s = 1..Len(s) /\ DOMAIN Tail(s) = 1..(Len(s) - 1)
  BY <1>1, LenProperties
<1>3. \A i \in DOMAIN Tail(s) : i + 1 \in DOMAIN s /\ Tail(s)[i] = s[i + 1]
  BY <1>1, <1>2
<1>4. \A i \in DOMAIN s : i # 1 => i - 1 \in DOMAIN Tail(s) /\ Tail(s)[i - 1] = s[i]
  BY <1>1, <1>2
<1>5. 1 \in DOMAIN s
  BY <1>1, <1>2
<1>6. Range(s) = Range(Tail(s)) \cup {Head(s)}
  <2>1. ASSUME NEW x \in Range(s) PROVE x \in Range(Tail(s)) \cup {Head(s)}
    <3>1. PICK i \in DOMAIN s : x = s[i]
      BY DEF Range
    <3>. QED  BY <1>1, <1>4, <3>1 DEF Range
  <2>2. Range(Tail(s)) \subseteq Range(s)
    BY <1>3 DEF Range
  <2>. QED  BY <1>1, <1>5, <2>1, <2>2 DEF Range
<1>. QED  BY <1>1, <1>2, <1>3, <1>5, <1>6

LEMMA BatchProperties ==
  ASSUME NEW b \in Batches
  PROVE  /\ b \in Seq(Windows) /\ b # <<>> /\ Range(b) # {} /\ Range(b) \subseteq Windows
         /\ Receiver(b) \in Apps
         /\ \A w \in Range(b) : AppOf(w) = Receiver(b)
<1>1. b \in Seq(Windows) /\ b # <<>>
  BY DEF Batches
<1>2. 1 \in DOMAIN b /\ Range(b) \subseteq Windows
  BY <1>1, TailProperties, RangeOfSeq
<1>3. b[1] \in Range(b)
  BY <1>2 DEF Range
<1>4. \A w \in Range(b) : AppOf(w) = AppOf(b[1])
  BY <1>2 DEF Batches, Range
<1>. QED  BY <1>1, <1>2, <1>3, <1>4 DEF Receiver, Apps

LEMMA TailOfBatch ==
  ASSUME NEW b \in Batches, Len(b) # 1
  PROVE  /\ Tail(b) \in Batches
         /\ Receiver(Tail(b)) = Receiver(b)
         /\ Range(Tail(b)) = Range(b) \ {Head(b)}
<1>1. b \in Seq(Windows) /\ b # <<>>
  BY DEF Batches
<1>. DEFINE t == Tail(b)
<1>2. /\ t \in Seq(Windows) /\ Head(b) = b[1] /\ 1 \in DOMAIN b
      /\ DOMAIN b = 1..Len(b) /\ Len(b) \in Nat /\ DOMAIN t = 1..(Len(b) - 1)
      /\ \A i \in DOMAIN t : i + 1 \in DOMAIN b /\ t[i] = b[i + 1]
      /\ Range(b) = Range(t) \cup {Head(b)}
  BY <1>1, TailProperties
<1>3. 1 \in DOMAIN t /\ \A i \in DOMAIN t : i \in Int
  BY <1>2
<1>. HIDE DEF t
<1>4. IsInjective(b) /\ \A i, j \in DOMAIN b : AppOf(b[i]) = AppOf(b[j])
  BY DEF Batches
<1>5. IsInjective(t)
  BY <1>2, <1>3, <1>4 DEF IsInjective
<1>6. \A i, j \in DOMAIN t : AppOf(t[i]) = AppOf(t[j])
  BY <1>2, <1>4
<1>7. t # <<>>
  BY <1>3
<1>8. Head(b) \notin Range(t)
  <2>1. \A i \in DOMAIN t : t[i] # b[1]
    BY <1>2, <1>3, <1>4 DEF IsInjective
  <2>. QED  BY <1>2, <2>1 DEF Range
<1>9. AppOf(t[1]) = AppOf(b[1])
  BY <1>2, <1>3, <1>4
<1>10. t \in Batches
  BY <1>2, <1>5, <1>6, <1>7 DEF Batches
<1>. QED  BY <1>2, <1>8, <1>9, <1>10 DEF Receiver, t

LEMMA FocusLastIsBatch ==
  ASSUME NEW b \in Batches, NEW f \in Range(b)
  PROVE  FocusLast(b, f) \in Batches /\ Range(FocusLast(b, f)) = Range(b)
<1>. DEFINE i == CHOOSE i \in DOMAIN b : b[i] = f
            n == Len(b)
            t == [b EXCEPT ![i] = b[n], ![n] = f]
<1>1. i \in DOMAIN b /\ b[i] = f
  BY DEF Range
<1>2. /\ b \in Seq(Windows) /\ b \in [1..n -> Windows] /\ n \in 1..n /\ DOMAIN b = 1..n
      /\ b # <<>> /\ IsInjective(b) /\ \A k, j \in DOMAIN b : AppOf(b[k]) = AppOf(b[j])
      /\ n \in Nat
  <2>1. b \in Seq(Windows) /\ b # <<>>
    BY DEF Batches
  <2>2. n \in Nat \ {0}
    BY <2>1, EmptySeq
  <2>. QED  BY <2>1, <2>2, LenProperties DEF Batches
<1>. HIDE DEF i, n
<1>3. /\ t \in [1..n -> Windows]
      /\ \A k \in 1..n : t[k] = IF k = n THEN f ELSE IF k = i THEN b[n] ELSE b[k]
  BY <1>1, <1>2
<1>. HIDE DEF t
<1>4. t \in Seq(Windows) /\ DOMAIN t = 1..n
  BY <1>2, <1>3
<1>5. t # <<>>
  BY <1>2, <1>4
<1>6. IsInjective(t)
  BY <1>1, <1>2, <1>3, <1>4 DEF IsInjective
<1>7. Range(t) = Range(b)
  <2>1. \A k \in 1..n : t[k] \in Range(b)
    BY <1>1, <1>2, <1>3 DEF Range
  <2>2. \A k \in 1..n : b[k] \in Range(t)
    <3>1. \A k \in 1..n : b[k] = IF k = i THEN t[n] ELSE IF k = n THEN t[i] ELSE t[k]
      BY <1>1, <1>2, <1>3
    <3>. QED  BY <1>1, <1>2, <1>4, <3>1 DEF Range
  <2>. QED  BY <1>2, <1>4, <2>1, <2>2 DEF Range
<1>8. \A k, j \in DOMAIN t : AppOf(t[k]) = AppOf(t[j])
  BY <1>1, <1>2, <1>3, <1>4
<1>9. t \in Batches
  BY <1>4, <1>5, <1>6, <1>8 DEF Batches
<1>. QED  BY <1>7, <1>9 DEF FocusLast, i, n, t

LEMMA TailOfGroups ==
  ASSUME NEW g \in Groups, g # <<>>
  PROVE  /\ Tail(g) \in Groups /\ Head(g) \in Batches
         /\ WindowsOf(g) = WindowsOf(Tail(g)) \cup Range(Head(g))
         /\ Range(Head(g)) \cap WindowsOf(Tail(g)) = {}
<1>. DEFINE t == Tail(g)
<1>1. g \in Seq(Batches) /\ \A i, j \in DOMAIN g : i # j => Range(g[i]) \cap Range(g[j]) = {}
  BY DEF Groups
<1>2. /\ t \in Seq(Batches) /\ Head(g) \in Batches /\ Head(g) = g[1]
      /\ 1 \in DOMAIN g /\ Len(g) \in Nat
      /\ DOMAIN g = 1..Len(g) /\ DOMAIN t = 1..(Len(g) - 1)
      /\ \A i \in DOMAIN t : i + 1 \in DOMAIN g /\ t[i] = g[i + 1]
  BY <1>1, TailProperties
<1>3. /\ \A i \in DOMAIN t : i \in Int /\ i + 1 # 1
      /\ \A i \in DOMAIN g : i # 1 => i - 1 \in DOMAIN t /\ g[i] = t[i - 1]
  BY <1>2
<1>. HIDE DEF t
<1>4. t \in Groups
  <2>1. \A i, j \in DOMAIN t : i # j => i + 1 # j + 1
    BY <1>3
  <2>. QED  BY <1>1, <1>2, <2>1 DEF Groups
<1>5. WindowsOf(g) = WindowsOf(t) \cup Range(g[1])
  BY <1>2, <1>3 DEF WindowsOf
<1>6. Range(g[1]) \cap WindowsOf(t) = {}
  BY <1>1, <1>2, <1>3 DEF WindowsOf
<1>. QED  BY <1>2, <1>4, <1>5, <1>6 DEF t

-----------------------------------------------------------------------------
(* Types *)

LEMMA MessageTypes ==
  ASSUME NEW m \in Messages
  PROVE  /\ m.type \in {"Request", "Started", "Completed", "Timeout"}
         /\ m.type = "Request" => m \in Requests
         /\ m.type = "Started" => m.generation \in Nat
         /\ m.type = "Completed" => m.window \in Windows /\ m.id \in Nat
         /\ m.type = "Timeout" => m.id \in Nat
BY DEF Messages, Requests, Reports

LEMMA WindowsOfBatches ==
  ASSUME NEW B \in Groups
  PROVE  WindowsOf(B) \subseteq Windows
<1>1. \A i \in DOMAIN B : B[i] \in Batches
  BY LenProperties, ElementOfSeq DEF Groups
<1>. QED  BY <1>1, BatchProperties DEF WindowsOf

LEMMA RequestType ==
  ASSUME NEW n \in Nat, NEW B \in Groups, NEW f \in Opt(Windows), NEW tag \in Nat,
         NEW W, W \subseteq Opt(Windows), NEW handles \in HandlesFor(W)
  PROVE  Request(n, B, f, handles, tag) \in Requests
<1>1. handles \in SUBSET Apps
  BY DEF HandlesFor, Opt, Apps
<1>. QED  BY <1>1 DEF Request, Requests

LEMMA FocusAloneType ==
  ASSUME NEW f \in Opt(Windows)
  PROVE  FocusAlone(f) \in Batches \cup {<<>>}
<1>1. CASE f = None
  BY <1>1 DEF FocusAlone
<1>2. CASE f # None
  <2>1. f \in Windows
    BY <1>2 DEF Opt
  <2>2. <<f>> \in Seq(Windows) /\ <<f>> # <<>> /\ IsInjective(<<f>>)
    BY <2>1 DEF IsInjective
  <2>3. \A i, j \in DOMAIN <<f>> : AppOf(<<f>>[i]) = AppOf(<<f>>[j])
    OBVIOUS
  <2>. QED  BY <1>2, <2>2, <2>3 DEF FocusAlone, Batches
<1>. QED  BY <1>1, <1>2

\* What Send and SendFocus do to the raises.
LEMMA SendType ==
  ASSUME TypeOK, active # None, NEW b \in Batches, NEW isFocus \in BOOLEAN, Send(b, isFocus)
  PROVE  /\ raises' \in [Apps -> Seq(Raises)]
         /\ \A a \in Apps : raises[a] # <<>> => raises'[a] # <<>>
<1>1. Receiver(b) \in Apps
  BY BatchProperties
<1>2. [windows |-> b, token |-> active.token, tag |-> active.tag, isFocus |-> isFocus] \in Raises
  BY DEF TypeOK, Opt, ActiveSequences, Raises
<1>3. CASE Receiver(b) \in listening
  <2>1. raises' = [raises EXCEPT ![Receiver(b)] =
                     Append(@, [windows |-> b, token |-> active.token,
                                tag |-> active.tag, isFocus |-> isFocus])]
    BY <1>3 DEF Send
  <2>. QED  BY <1>1, <1>2, <2>1, AppendProperties DEF TypeOK
<1>4. CASE Receiver(b) \notin listening
  BY <1>4 DEF Send, TypeOK
<1>. QED  BY <1>3, <1>4

LEMMA FinishType ==
  ASSUME TypeOK, NEW a \in Apps, raises[a] # <<>>, Finish(a)
  PROVE  /\ raises' \in [Apps -> Seq(Raises)]
         /\ phase' \in [Apps -> {"idle", "blocked", "waiting", "raising"}]
         /\ \A b \in Apps : phase'[b] # "idle" => raises'[b] # <<>>
         /\ holder' \in Opt(Apps)
<1>1. Tail(raises[a]) \in Seq(Raises)
  BY TailProperties DEF TypeOK
<1>. QED  BY <1>1 DEF Finish, TypeOK, Opt

LEMMA CurrentType ==
  ASSUME TypeOK, NEW a \in Apps, raises[a] # <<>>
  PROVE  /\ Current(a) \in Raises /\ Current(a) = raises[a][1]
         /\ 1 \in DOMAIN raises[a] /\ 1 \in 1..Len(raises[a])
BY TailProperties DEF TypeOK, Current

LEMMA InitType == Init => TypeOK
BY RaiseAssumption DEF Init, TypeOK, Opt, RaiseAssumption

LEMMA StepType ==
  ASSUME TypeOK, [Next]_vars
  PROVE  TypeOK'
<1>. USE DEF TypeOK
<1>1. CASE Iterate
  <2>1. ASSUME NEW r \in queued, StartNewSequence(r) PROVE TypeOK'
    <3>1. r \in Requests
      BY <2>1
    <3>2. FocusAlone(r.focus) \in Batches \cup {<<>>}
      BY <3>1, FocusAloneType DEF Requests
    <3>3. active' \in ActiveSequences
      BY <2>1, <3>1, <3>2 DEF StartNewSequence, Requests, ActiveSequences, Tokens
    <3>. QED  BY <1>1, <2>1, <3>3 DEF StartNewSequence, Iterate, Opt, reactor, manager, apps
  <2>2. ASSUME SendNext PROVE TypeOK'
    <3>. DEFINE batch == Head(active.unsent)
                rest == [active EXCEPT !.unsent = Tail(@)]
    <3>1. active \in ActiveSequences /\ active # None /\ active.unsent # <<>>
      BY <2>2 DEF SendNext, Opt
    <3>2. batch \in Batches /\ Tail(active.unsent) \in Groups
      BY <3>1, TailOfGroups DEF ActiveSequences
    <3>3. rest \in ActiveSequences
      BY <3>1, <3>2 DEF ActiveSequences
    <3>4. Range(batch) \subseteq Windows
      BY <3>2, BatchProperties
    <3>5. /\ active' \in ActiveSequences
          /\ raises' \in [Apps -> Seq(Raises)]
          /\ \A a \in Apps : raises[a] # <<>> => raises'[a] # <<>>
      <4>. HIDE DEF batch
      <4>1. CASE /\ active.focus \in Range(batch)
                 /\ active' = [rest EXCEPT !.focusBatch = FocusLast(batch, active.focus)]
                 /\ UNCHANGED raises
        <5>1. FocusLast(batch, active.focus) \in Batches
          BY <3>2, <4>1, FocusLastIsBatch
        <5>. QED  BY <3>3, <4>1, <5>1 DEF ActiveSequences
      <4>2. CASE active' = rest /\ UNCHANGED raises
        BY <3>3, <4>2
      <4>3. CASE /\ active' = [rest EXCEPT !.pending = @ \cup Range(batch)]
                 /\ Send(batch, FALSE)
        <5>1. active' \in ActiveSequences
          BY <3>3, <3>4, <4>3 DEF ActiveSequences
        <5>. QED  BY <3>1, <3>2, <4>3, <5>1, SendType
      <4>. QED  BY <2>2, <4>1, <4>2, <4>3 DEF SendNext, batch
    <3>. QED  BY <1>1, <2>2, <3>5 DEF SendNext, Iterate, Opt, reactor, manager, apps
  <2>3. ASSUME SendFocus PROVE TypeOK'
    <3>. DEFINE batch == active.focusBatch
                rest == [active EXCEPT !.focusBatch = <<>>]
    <3>1. active \in ActiveSequences /\ active # None /\ batch \in Batches
      BY <2>3 DEF SendFocus, RaisesDone, Opt, ActiveSequences
    <3>2. rest \in ActiveSequences
      BY <3>1 DEF ActiveSequences
    <3>3. Range(batch) \subseteq Windows
      BY <3>1, BatchProperties
    <3>4. /\ active' \in ActiveSequences
          /\ raises' \in [Apps -> Seq(Raises)]
          /\ \A a \in Apps : raises[a] # <<>> => raises'[a] # <<>>
      <4>1. CASE active' = rest /\ UNCHANGED raises
        BY <3>2, <4>1
      <4>2. CASE active' = [rest EXCEPT !.pending = Range(batch)] /\ Send(batch, TRUE)
        <5>1. active' \in ActiveSequences
          BY <3>2, <3>3, <4>2 DEF ActiveSequences
        <5>. QED  BY <3>1, <4>2, <5>1, SendType
      <4>. QED  BY <2>3, <4>1, <4>2 DEF SendFocus
    <3>. QED  BY <1>1, <2>3, <3>4 DEF SendFocus, Iterate, Opt, reactor, manager, apps
  <2>4. ASSUME EndSequence PROVE TypeOK'
    BY <1>1, <2>4 DEF EndSequence, Iterate, Opt, reactor, manager, apps
  <2>. QED  BY <1>1, <2>1, <2>2, <2>3, <2>4 DEF Iterate
<1>2. CASE HandleMessage
  <2>. DEFINE m == Head(mailbox)
  <2>1. m \in Messages /\ Tail(mailbox) \in Seq(Messages)
    BY <1>2, TailProperties DEF HandleMessage
  <2>2. ASSUME NEW g \in Nat, Supersede(g)
        PROVE  active' \in Opt(ActiveSequences) /\ cancelled' \subseteq Tokens /\ newest' \in Nat
    BY <2>2 DEF Supersede, Superseded, Opt, ActiveSequences
  <2>3. Untagged \subseteq Requests
    BY DEF Untagged
  <2>. HIDE DEF m
  <2>. DEFINE Typed == /\ active' \in Opt(ActiveSequences) /\ queued' \subseteq Requests
                       /\ cancelled' \subseteq Tokens /\ newest' \in Nat
  <2>4. Typed
    <3>1. ASSUME m.type = "Request", HandleRequest(m) PROVE Typed
      <4>1. m \in Requests /\ m.tag \in Nat
        BY <2>1, <3>1, MessageTypes DEF Requests
      <4>. QED  BY <2>2, <2>3, <3>1, <4>1 DEF HandleRequest
    <3>2. ASSUME m.type = "Started", HandleStarted(m) PROVE Typed
      BY <2>1, <2>2, <2>3, <3>2, MessageTypes DEF HandleStarted
    <3>3. ASSUME m.type = "Completed", HandleCompleted(m) PROVE Typed
      BY <3>3 DEF HandleCompleted, Opt, ActiveSequences
    <3>4. ASSUME m.type = "Timeout", HandleTimeout(m) PROVE Typed
      <4>1. CASE active # None /\ active.id = m.id
        <5>1. active \in ActiveSequences /\ active.token \in Tokens
          BY <4>1 DEF Opt, ActiveSequences
        <5>2. <<active.token[1], active.token[2] + 1>> \in Tokens
          BY <5>1 DEF Tokens
        <5>3. active' \in ActiveSequences
          BY <3>4, <4>1, <5>1, <5>2 DEF HandleTimeout, ActiveSequences
        <5>. QED  BY <3>4, <4>1, <5>1, <5>3 DEF HandleTimeout, Opt
      <4>2. CASE ~(active # None /\ active.id = m.id)
        BY <3>4, <4>2 DEF HandleTimeout
      <4>. QED  BY <4>1, <4>2
    <3>. QED  BY <1>2, <3>1, <3>2, <3>3, <3>4 DEF HandleMessage, m
  <2>. QED  BY <1>2, <2>1, <2>4 DEF HandleMessage, m, reactor, apps
<1>3. CASE TimerFires
  <2>1. Timeout(active.id) \in Reports
    BY <1>3 DEF TimerFires, Opt, ActiveSequences, Timeout, Reports
  <2>2. events' \in Seq(Reports)
    BY <1>3, <2>1 DEF TimerFires
  <2>3. active' \in Opt(ActiveSequences)
    BY <1>3 DEF TimerFires, Opt, ActiveSequences
  <2>. QED  BY <1>3, <2>2, <2>3 DEF TimerFires, reactor, apps
<1>4. CASE HandleLayoutResponse
  <2>. DEFINE tag == IF generation' = generation THEN switching ELSE generation'
  <2>1. tag \in Nat /\ generation' \in Nat /\ responses' \in Nat
    BY <1>4 DEF HandleLayoutResponse
  <2>2. SwitchMessage(tag) \in Seq(Messages)
    <3>1. tag # 0 => Started(tag) \in Messages
      BY <2>1 DEF Started, Messages
    <3>. HIDE DEF tag
    <3>. QED  BY <3>1 DEF SwitchMessage
  <2>. HIDE DEF tag
  <2>3. ASSUME RespondWithoutRaise(tag) PROVE mailbox' \in Seq(Messages) /\ switching' \in Nat
    BY <2>2, <2>3, ConcatProperties DEF RespondWithoutRaise
  <2>4. ASSUME RespondWithRaise(tag) PROVE mailbox' \in Seq(Messages) /\ switching' \in Nat
    <3>1. PICK r \in Responses : \E focus \in ChosenFocus(r) :
            \E handles \in HandlesFor(WindowsOf(r.batches) \cup {r.focus}) :
              mailbox' = mailbox \o SwitchMessage(tag)
                \o <<Request(responses + 1, r.batches, focus, handles, tag)>>
      BY <2>4 DEF RespondWithRaise
    <3>8. PICK focus \in ChosenFocus(r) :
            \E handles \in HandlesFor(WindowsOf(r.batches) \cup {r.focus}) :
              mailbox' = mailbox \o SwitchMessage(tag)
                \o <<Request(responses + 1, r.batches, focus, handles, tag)>>
      BY <3>1
    <3>0. PICK handles \in HandlesFor(WindowsOf(r.batches) \cup {r.focus}) :
            mailbox' = mailbox \o SwitchMessage(tag)
              \o <<Request(responses + 1, r.batches, focus, handles, tag)>>
      BY <3>8
    <3>2. r.batches \in Groups /\ r.focus \in Opt(Windows) /\ focus \in Opt(Windows)
      BY RaiseAssumption DEF RaiseAssumption, ChosenFocus, Opt
    <3>3. WindowsOf(r.batches) \cup {r.focus} \subseteq Opt(Windows)
      BY <3>2, WindowsOfBatches DEF Opt
    <3>4. responses + 1 \in Nat
      OBVIOUS
    <3>5. Request(responses + 1, r.batches, focus, handles, tag) \in Messages
      BY <2>1, <3>2, <3>3, <3>4, RequestType DEF Messages
    <3>6. mailbox \o SwitchMessage(tag) \in Seq(Messages)
      BY <2>2, ConcatProperties
    <3>7. mailbox' \in Seq(Messages)
      BY <3>0, <3>5, <3>6, ConcatProperties
    <3>. QED  BY <2>1, <2>4, <3>7 DEF RespondWithRaise
  <2>5. mailbox' \in Seq(Messages) /\ switching' \in Nat
    BY <1>4, <2>3, <2>4 DEF HandleLayoutResponse, tag
  <2>. QED  BY <1>4, <2>1, <2>5 DEF HandleLayoutResponse, manager, apps
<1>5. CASE SwitchEnds
  BY <1>5 DEF SwitchEnds, manager, apps
<1>6. CASE RaiseOne
  <2>0. PICK w \in Targets : \E handles \in HandlesFor({w}) :
          mailbox' = Append(mailbox, Request(responses + 1, << <<w>> >>, w, handles, 0))
    BY <1>6 DEF RaiseOne
  <2>1. PICK handles \in HandlesFor({w}) :
          mailbox' = Append(mailbox, Request(responses + 1, << <<w>> >>, w, handles, 0))
    BY <2>0
  <2>2. w \in Windows /\ w # None
    BY RaiseAssumption DEF RaiseAssumption
  <2>3. <<w>> \in Batches
    BY <2>2, FocusAloneType DEF FocusAlone, Opt
  <2>4. << <<w>> >> \in Groups /\ w \in Opt(Windows) /\ {w} \subseteq Opt(Windows)
    BY <2>2, <2>3 DEF Opt, Groups
  <2>5. Request(responses + 1, << <<w>> >>, w, handles, 0) \in Messages
    <3>1. responses + 1 \in Nat /\ 0 \in Nat
      BY DEF TypeOK
    <3>. QED  BY <2>4, <3>1, RequestType DEF Messages
  <2>6. mailbox' \in Seq(Messages)
    BY <2>1, <2>5
  <2>. QED  BY <1>6, <2>6 DEF RaiseOne, manager, apps
<1>7. CASE Relay
  <2>1. Head(events) \in Reports /\ Tail(events) \in Seq(Reports)
    BY <1>7, TailProperties DEF Relay
  <2>2. mailbox' \in Seq(Messages)
    BY <1>7, <2>1 DEF Relay, Messages
  <2>. QED  BY <1>7, <2>1, <2>2 DEF Relay, reactor, manager, apps
<1>8. ASSUME NEW a \in Apps, ThreadStep(a) PROVE TypeOK'
  <2>1. \A p \in {"idle", "blocked", "waiting", "raising"} :
          raises[a] # <<>> =>
            LET ph == [phase EXCEPT ![a] = p]
            IN  /\ ph \in [Apps -> {"idle", "blocked", "waiting", "raising"}]
                /\ \A b \in Apps : ph[b] # "idle" => raises[b] # <<>>
    OBVIOUS
  <2>2. ASSUME Finish(a), raises[a] # <<>>, UNCHANGED <<events, latest>> PROVE TypeOK'
    BY <1>8, <2>2, FinishType DEF ThreadStep, reactor, manager
  <2>3. ASSUME RaiseNext(a) PROVE TypeOK'
    <3>1. raises[a] # <<>>
      BY <2>3 DEF RaiseNext
    <3>2. Current(a) \in Raises /\ Current(a) = raises[a][1] /\ 1 \in 1..Len(raises[a])
      BY <3>1, CurrentType
    <3>. DEFINE b == Current(a).windows
    <3>3. b \in Batches /\ b \in Seq(Windows) /\ b # <<>>
      BY <3>2 DEF Raises, Batches
    <3>4. Head(b) \in Windows
      BY <3>3, TailProperties
    <3>5. Completed(Head(b), Current(a).token[1]) \in Reports
      BY <3>2, <3>4 DEF Raises, Tokens, Completed, Reports
    <3>6. events' \in Seq(Reports)
      BY <2>3, <3>5 DEF RaiseNext
    <3>7. latest' \in [id : Nat, isFocus : BOOLEAN]
      BY <2>3, <3>2 DEF RaiseNext, Raises, Tokens
    <3>8. /\ raises' \in [Apps -> Seq(Raises)]
          /\ phase' \in [Apps -> {"idle", "blocked", "waiting", "raising"}]
          /\ \A c \in Apps : phase'[c] # "idle" => raises'[c] # <<>>
          /\ holder' \in Opt(Apps)
      <4>1. CASE Len(b) = 1
        BY <2>3, <3>1, <4>1, FinishType DEF RaiseNext
      <4>2. CASE Len(b) # 1
        <5>1. Tail(b) \in Batches
          BY <3>3, <4>2, TailOfBatch
        <5>2. [raises[a][1] EXCEPT !.windows = Tail(@)] \in Raises
          BY <3>2, <5>1 DEF Raises
        <5>3. [raises[a] EXCEPT ![1].windows = Tail(@)] \in Seq(Raises)
          BY <3>2, <5>2, ExceptSeq
        <5>4. [raises[a] EXCEPT ![1].windows = Tail(@)] # <<>>
          BY <3>2, <5>2, ExceptSeq, EmptySeq
        <5>. QED  BY <2>3, <4>2, <5>3, <5>4 DEF RaiseNext
      <4>. QED  BY <4>1, <4>2
    <3>. QED  BY <1>8, <3>6, <3>7, <3>8 DEF ThreadStep, reactor, manager
  <2>4. CASE Refuse(a)
    BY <2>2, <2>4 DEF Refuse
  <2>5. CASE Begin(a)
    BY <1>8, <2>1, <2>5 DEF Begin, ThreadStep, reactor, manager
  <2>6. CASE Lock(a)
    BY <1>8, <2>1, <2>6 DEF Lock, ThreadStep, Opt, reactor, manager
  <2>7. CASE GiveUp(a)
    BY <2>2, <2>7 DEF GiveUp
  <2>8. CASE StopWaiting(a)
    BY <2>2, <2>8 DEF StopWaiting
  <2>9. CASE RaiseFails(a)
    BY <2>2, <2>9 DEF RaiseFails
  <2>. QED  BY <1>8, <2>3, <2>4, <2>5, <2>6, <2>7, <2>8, <2>9 DEF ThreadStep
<1>9. ASSUME NEW a \in Apps, ActivationArrives(a) PROVE TypeOK'
  BY <1>9 DEF ActivationArrives, Activated, reactor, manager
<1>10. ASSUME NEW a \in Apps, Terminates(a) PROVE TypeOK'
  BY <1>10 DEF Terminates, reactor, manager, apps
<1>11. CASE UNCHANGED vars
  BY <1>11 DEF vars, reactor, manager, apps
<1>. QED  BY <1>1, <1>2, <1>3, <1>4, <1>5, <1>6, <1>7, <1>8, <1>9, <1>10, <1>11 DEF Next

\* Every reachable state is well typed: every batch is of one application, and an
\* application that is busy with a raise has one.
THEOREM TypeCorrect == Spec => []TypeOK
BY InitType, StepType, PTL DEF Spec

-----------------------------------------------------------------------------
(* The inductive invariant *)

\* The completions on their way to the manager, as pairs of a window and a sequence.
CompletedIn(S) == {<<m.window, m.id>> : m \in {n \in S : n.type = "Completed"}}
Done == CompletedIn(Range(mailbox) \cup Range(events))

\* The active sequence is the newest, and nothing bears the number of the next one.
NumbersAreUsed ==
  /\ active # None => active.id + 1 = nextId /\ active.token[1] = active.id
  /\ \A t \in cancelled : t[1] < nextId
  /\ \A a \in Apps : \A i \in DOMAIN raises[a] :
       raises[a][i].token[1] < nextId /\ Receiver(raises[a][i].windows) = a
  /\ \A d \in Done : d[2] < nextId
  /\ latest.id < nextId

\* The windows that the active sequence has yet to send.
Unsent == WindowsOf(active.unsent) \cup Range(active.focusBatch)

\* A sequence raises each of its windows once: a window is unsent, in one raise or
\* reported, so that a report that comes late says nothing about a later raise.
WindowsAreRaisedOnce ==
  active # None =>
    /\ \A i \in DOMAIN active.unsent :
         \/ active.focus \in Range(active.unsent[i])
         \/ Range(active.unsent[i]) \cap Range(active.focusBatch) = {}
    /\ \A d \in Done : d[2] = active.id => d[1] \notin Unsent
    /\ \A a \in Apps : \A i \in DOMAIN raises[a] :
         raises[a][i].token[1] = active.id =>
           /\ Range(raises[a][i].windows) \cap Unsent = {}
           /\ \A d \in Done : d[2] = active.id => d[1] \notin Range(raises[a][i].windows)
           /\ \A j \in DOMAIN raises[a] :
                i # j /\ raises[a][j].token[1] = active.id =>
                  Range(raises[a][i].windows) \cap Range(raises[a][j].windows) = {}

\* A fresh token is in nobody's hands, and a raise that is not cancelled has the token
\* and the tag of the active sequence.
TokensAreFresh ==
  /\ active # None => \A t \in cancelled : t[1] = active.id => t[2] < active.token[2]
  /\ \A a \in Apps : \A i \in DOMAIN raises[a] :
       Live(raises[a][i].token) =>
         active # None /\ raises[a][i].token = active.token /\ raises[a][i].tag = active.tag

\* Work for a switch is for the newest one.
TagsAreNewest ==
  /\ active # None => active.tag \in {0, newest}
  /\ \A r \in queued : r.tag \in {0, newest}

\* Only the holder of the mutex raises windows.
HolderRaises ==
  \A a \in Apps : phase[a] \in {"waiting", "raising"} => holder = a

\* The focus raise, sent or carried out, comes after all others of its sequence.
FocusIsLast ==
  active # None
  /\ (\/ latest.id = active.id /\ latest.isFocus
      \/ \E a \in Apps : \E i \in DOMAIN raises[a] :
           raises[a][i].token[1] = active.id /\ raises[a][i].isFocus)
  => /\ active.unsent = <<>> /\ active.focusBatch = <<>>
     /\ \A a \in Apps : \A i \in DOMAIN raises[a] :
          Live(raises[a][i].token) => raises[a][i].isFocus

\* What the holder raises comes after what was raised before.
HolderIsInOrder ==
  \A a \in Apps : phase[a] \in {"waiting", "raising"} =>
    /\ latest.id <= Current(a).token[1]
    /\ latest.id = Current(a).token[1] /\ latest.isFocus => Current(a).isFocus

IInv ==
  /\ TypeOK
  /\ NumbersAreUsed
  /\ WindowsAreRaisedOnce
  /\ TokensAreFresh
  /\ WaitsForItsRaises
  /\ TagsAreNewest
  /\ HolderRaises
  /\ FocusIsLast
  /\ HolderIsInOrder

-----------------------------------------------------------------------------
(* What the steps do to the raises and to the completions *)

\* Raises are carried out: those that are left keep their order and who they are for.
Progress ==
  \A a \in Apps : \E k \in {0, 1} : \A i \in DOMAIN raises'[a] :
    /\ i + k \in DOMAIN raises[a]
    /\ raises'[a][i].token = raises[a][i + k].token
    /\ raises'[a][i].tag = raises[a][i + k].tag
    /\ raises'[a][i].isFocus = raises[a][i + k].isFocus
    /\ Receiver(raises'[a][i].windows) = Receiver(raises[a][i + k].windows)
    /\ Range(raises'[a][i].windows) \subseteq Range(raises[a][i + k].windows)

LEMMA RaiseTypes ==
  ASSUME TypeOK, NEW a \in Apps
  PROVE  /\ raises[a] \in Seq(Raises) /\ DOMAIN raises[a] = 1..Len(raises[a])
         /\ Len(raises[a]) \in Nat
         /\ \A i \in DOMAIN raises[a] :
              /\ raises[a][i] \in Raises /\ raises[a][i].windows \in Batches
              /\ raises[a][i].token \in Tokens /\ raises[a][i].token[1] \in Nat
              /\ Range(raises[a][i].windows) # {}
<1>1. raises[a] \in Seq(Raises)
  BY DEF TypeOK
<1>2. DOMAIN raises[a] = 1..Len(raises[a]) /\ Len(raises[a]) \in Nat
  BY <1>1, LenProperties
<1>3. \A i \in DOMAIN raises[a] : raises[a][i] \in Raises
  BY <1>1, <1>2, ElementOfSeq
<1>4. \A r \in Raises : r.windows \in Batches /\ r.token \in Tokens /\ r.token[1] \in Nat
  BY DEF Raises, Tokens
<1>. QED  BY <1>1, <1>2, <1>3, <1>4, BatchProperties

LEMMA SameProgress ==
  ASSUME TypeOK, UNCHANGED raises
  PROVE  Progress
<1>1. \A a \in Apps : \A i \in DOMAIN raises[a] : i + 0 = i
  BY RaiseTypes
<1>. QED  BY <1>1 DEF Progress

LEMMA FinishProgress ==
  ASSUME TypeOK, NEW a \in Apps, raises[a] # <<>>, Finish(a)
  PROVE  Progress
<1>1. /\ raises' = [raises EXCEPT ![a] = Tail(raises[a])] /\ raises \in [Apps -> Seq(Raises)]
  BY DEF Finish, TypeOK
<1>2. \A i \in DOMAIN Tail(raises[a]) : i + 1 \in DOMAIN raises[a] /\ Tail(raises[a])[i] = raises[a][i + 1]
  BY TailProperties DEF TypeOK
<1>3. \A b \in Apps : \A i \in DOMAIN raises[b] : i + 0 = i
  BY RaiseTypes
<1>4. ASSUME NEW b \in Apps, b # a PROVE raises'[b] = raises[b]
  BY <1>1, <1>4
<1>5. raises'[a] = Tail(raises[a])
  BY <1>1
<1>. QED  BY <1>2, <1>3, <1>4, <1>5 DEF Progress

LEMMA RaiseNextProgress ==
  ASSUME TypeOK, NEW a \in Apps, RaiseNext(a)
  PROVE  Progress
<1>1. raises[a] # <<>>
  BY DEF RaiseNext, TypeOK
<1>2. Current(a) = raises[a][1] /\ 1 \in DOMAIN raises[a] /\ Current(a) \in Raises
  BY <1>1, CurrentType
<1>3. CASE Len(Current(a).windows) = 1
  BY <1>1, <1>3, FinishProgress DEF RaiseNext
<1>4. CASE Len(Current(a).windows) # 1
  <2>. DEFINE w == raises[a][1].windows
              new == [raises[a][1] EXCEPT !.windows = Tail(w)]
  <2>1. w \in Batches
    BY <1>2, RaiseTypes
  <2>2. Receiver(Tail(w)) = Receiver(w) /\ Range(Tail(w)) \subseteq Range(w)
    BY <1>2, <1>4, <2>1, TailOfBatch
  <2>3. /\ raises' = [raises EXCEPT ![a] = [raises[a] EXCEPT ![1] = new]]
        /\ raises \in [Apps -> Seq(Raises)]
    BY <1>4 DEF RaiseNext, TypeOK
  <2>4. /\ new.token = raises[a][1].token /\ new.tag = raises[a][1].tag
        /\ new.isFocus = raises[a][1].isFocus /\ new.windows = Tail(w)
    BY <1>2 DEF Raises
  <2>5. \A b \in Apps : \A i \in DOMAIN raises[b] : i + 0 = i
    BY RaiseTypes
  <2>. HIDE DEF new
  <2>6. /\ DOMAIN raises'[a] = DOMAIN raises[a]
        /\ \A i \in DOMAIN raises[a] : raises'[a][i] = IF i = 1 THEN new ELSE raises[a][i]
    BY <2>3
  <2>7. \A b \in Apps \ {a} : raises'[b] = raises[b]
    BY <2>3
  <2>. QED  BY <2>2, <2>4, <2>5, <2>6, <2>7 DEF Progress
<1>. QED  BY <1>3, <1>4

LEMMA ThreadProgress ==
  ASSUME TypeOK, NEW a \in Apps, ThreadStep(a)
  PROVE  Progress
<1>1. raises[a] # <<>>
  BY DEF ThreadStep, Refuse, Begin, Lock, GiveUp, StopWaiting, RaiseNext, RaiseFails, TypeOK
<1>2. Finish(a) \/ RaiseNext(a) \/ UNCHANGED raises
  BY DEF ThreadStep, Refuse, Begin, Lock, GiveUp, StopWaiting, RaiseFails
<1>. QED  BY <1>1, <1>2, FinishProgress, RaiseNextProgress, SameProgress

\* What is sent comes last.
LEMMA SendAppends ==
  ASSUME TypeOK, active # None, NEW b \in Batches, NEW isFocus \in BOOLEAN, Send(b, isFocus)
  PROVE  /\ Receiver(b) \in Apps
         /\ \A a \in Apps : \A i \in DOMAIN raises[a] :
              i \in DOMAIN raises'[a] /\ raises'[a][i] = raises[a][i]
         /\ \A a \in Apps : \A i \in DOMAIN raises'[a] :
              \/ i \in DOMAIN raises[a] /\ raises'[a][i] = raises[a][i]
              \/ /\ a = Receiver(b) /\ i = Len(raises[a]) + 1
                 /\ raises'[a][i] = [windows |-> b, token |-> active.token,
                                     tag |-> active.tag, isFocus |-> isFocus]
<1>. DEFINE r == Receiver(b)
            new == [windows |-> b, token |-> active.token, tag |-> active.tag, isFocus |-> isFocus]
<1>1. r \in Apps
  BY BatchProperties
<1>2. new \in Raises
  BY DEF TypeOK, Opt, ActiveSequences, Raises
<1>0. CASE r \notin listening
  BY <1>0, <1>1 DEF Send
<1>. SUFFICES ASSUME r \in listening
              PROVE  /\ \A a \in Apps : \A i \in DOMAIN raises[a] :
                          i \in DOMAIN raises'[a] /\ raises'[a][i] = raises[a][i]
                     /\ \A a \in Apps : \A i \in DOMAIN raises'[a] :
                          \/ i \in DOMAIN raises[a] /\ raises'[a][i] = raises[a][i]
                          \/ a = r /\ i = Len(raises[a]) + 1 /\ raises'[a][i] = new
  BY <1>0, <1>1
<1>3. /\ raises' = [raises EXCEPT ![r] = Append(raises[r], new)]
      /\ raises \in [Apps -> Seq(Raises)]
  BY DEF Send, TypeOK
<1>. HIDE DEF r, new
<1>4. raises'[r] = Append(raises[r], new) /\ \A a \in Apps \ {r} : raises'[a] = raises[a]
  BY <1>1, <1>3
<1>5. /\ \A i \in DOMAIN raises[r] : Append(raises[r], new)[i] = raises[r][i]
      /\ Append(raises[r], new)[Len(raises[r]) + 1] = new
      /\ DOMAIN Append(raises[r], new) = DOMAIN raises[r] \cup {Len(raises[r]) + 1}
  <2>1. raises[r] \in Seq(Raises) /\ DOMAIN raises[r] = 1..Len(raises[r]) /\ Len(raises[r]) \in Nat
    BY <1>1, RaiseTypes
  <2>2. /\ Append(raises[r], new) \in Seq(Raises)
        /\ Len(Append(raises[r], new)) = Len(raises[r]) + 1
        /\ \A i \in 1..Len(raises[r]) : Append(raises[r], new)[i] = raises[r][i]
        /\ Append(raises[r], new)[Len(raises[r]) + 1] = new
    BY <1>2, <2>1, AppendProperties
  <2>3. DOMAIN Append(raises[r], new) = 1..(Len(raises[r]) + 1)
    BY <2>2, LenProperties
  <2>. QED  BY <2>1, <2>2, <2>3
<1>. QED  BY <1>1, <1>4, <1>5 DEF r, new

LEMMA CompletionsStep ==
  ASSUME TypeOK, [Next]_vars, NEW d \in Done'
  PROVE  \/ d \in Done
         \/ \E a \in Apps : /\ ThreadStep(a) /\ RaiseNext(a)
                            /\ d = <<Head(Current(a).windows), Current(a).token[1]>>
<1>. DEFINE All == Range(mailbox) \cup Range(events)
<1>1. PICK m \in Range(mailbox') \cup Range(events') :
        m.type = "Completed" /\ d = <<m.window, m.id>>
  BY DEF Done, CompletedIn
<1>2. SUFFICES ASSUME m \notin All
      PROVE  \E a \in Apps : /\ ThreadStep(a) /\ RaiseNext(a)
                             /\ m = Completed(Head(Current(a).windows), Current(a).token[1])
  <2>1. m \in All => d \in Done
    BY <1>1 DEF Done, CompletedIn
  <2>. QED  BY <1>1, <1>2, <2>1 DEF Completed
<1>3. mailbox \in Seq(Messages) /\ events \in Seq(Reports)
  BY DEF TypeOK
<1>4. ASSUME UNCHANGED mailbox, UNCHANGED events PROVE FALSE
  BY <1>1, <1>2, <1>4
<1>5. CASE HandleMessage
  <2>1. Range(Tail(mailbox)) \subseteq Range(mailbox)
    BY <1>3, <1>5, TailProperties DEF HandleMessage
  <2>. QED  BY <1>1, <1>2, <1>5, <2>1 DEF HandleMessage
<1>6. CASE TimerFires
  <2>1. Timeout(active.id) \in Reports
    BY <1>6 DEF TypeOK, TimerFires, Opt, ActiveSequences, Timeout, Reports
  <2>2. Range(events') = Range(events) \cup {Timeout(active.id)} /\ UNCHANGED mailbox
    BY <1>3, <1>6, <2>1, RangeAppend DEF TimerFires
  <2>. QED  BY <1>1, <1>2, <2>2 DEF Timeout
<1>7. CASE Relay
  <2>1. /\ Range(events) = Range(Tail(events)) \cup {Head(events)} /\ Head(events) \in Reports
    BY <1>3, <1>7, TailProperties DEF Relay
  <2>2. Range(mailbox') = Range(mailbox) \cup {Head(events)}
    BY <1>3, <1>7, <2>1, RangeAppend DEF Relay, Messages
  <2>. QED  BY <1>1, <1>2, <1>7, <2>1, <2>2 DEF Relay
<1>8. ASSUME NEW a \in Apps, ThreadStep(a)
      PROVE  RaiseNext(a) /\ m = Completed(Head(Current(a).windows), Current(a).token[1])
  <2>1. UNCHANGED mailbox
    BY <1>8 DEF ThreadStep
  <2>2. RaiseNext(a)
    BY <1>4, <1>8, <2>1 DEF ThreadStep, Refuse, Begin, Lock, GiveUp, StopWaiting, RaiseFails
  <2>3. raises[a] # <<>>
    BY <2>2 DEF RaiseNext, TypeOK
  <2>4. Current(a) \in Raises /\ Current(a).windows \in Batches
    BY <2>3, CurrentType DEF Raises
  <2>5. Head(Current(a).windows) \in Windows
    BY <2>4, BatchProperties, TailProperties
  <2>. DEFINE new == Completed(Head(Current(a).windows), Current(a).token[1])
  <2>6. new \in Reports
    BY <2>4, <2>5 DEF Raises, Tokens, Completed, Reports
  <2>7. events' = Append(events, new)
    BY <2>2 DEF RaiseNext
  <2>. HIDE DEF new
  <2>8. Range(events') = Range(events) \cup {new}
    BY <1>3, <2>6, <2>7, RangeAppend
  <2>. QED  BY <1>1, <1>2, <2>1, <2>2, <2>8 DEF new
<1>9. CASE HandleLayoutResponse
  <2>. DEFINE tag == IF generation' = generation THEN switching ELSE generation'
              sm == SwitchMessage(tag)
  <2>1. tag \in Nat /\ UNCHANGED events
    BY <1>9 DEF HandleLayoutResponse, TypeOK
  <2>2. sm \in Seq(Messages) /\ \A x \in Range(sm) : x.type = "Started"
    <3>1. tag # 0 => Started(tag) \in Messages
      BY <2>1 DEF Started, Messages
    <3>. HIDE DEF tag
    <3>2. CASE tag = 0
      BY <3>2 DEF SwitchMessage, Range
    <3>3. CASE tag # 0
      BY <3>1, <3>3 DEF SwitchMessage, Started, Range
    <3>. QED  BY <3>2, <3>3
  <2>. HIDE DEF sm
  <2>3. Range(mailbox \o sm) = Range(mailbox) \cup Range(sm) /\ mailbox \o sm \in Seq(Messages)
    BY <1>3, <2>2, RangeConcatenation, ConcatProperties
  <2>4. CASE mailbox' = mailbox \o sm
    BY <1>1, <1>2, <2>1, <2>2, <2>3, <2>4
  <2>5. ASSUME NEW x, x.type = "Request", mailbox' = mailbox \o sm \o <<x>>
        PROVE  FALSE
    <3>1. Range(<<x>>) = {x}
      BY DEF Range
    <3>2. mailbox \o sm \in Seq(Messages \cup {x}) /\ <<x>> \in Seq(Messages \cup {x})
      BY <2>3, SeqMonotonic
    <3>3. Range(mailbox') = Range(mailbox) \cup Range(sm) \cup {x}
      <4>. DEFINE p == mailbox \o sm
                  q == <<x>>
                  S == Messages \cup {x}
      <4>1. p \in Seq(S) /\ q \in Seq(S) /\ mailbox' = p \o q
        BY <2>5, <3>2
      <4>2. Range(p) = Range(mailbox) \cup Range(sm) /\ Range(q) = {x}
        BY <2>3, <3>1
      <4>. HIDE DEF p, q, S
      <4>3. Range(p \o q) = Range(p) \cup Range(q)
        BY <4>1, RangeConcatenation
      <4>. QED  BY <4>1, <4>2, <4>3
    <3>. QED  BY <1>1, <1>2, <2>1, <2>2, <2>5, <3>3
  <2>6. \A n, B, f, h, t : Request(n, B, f, h, t).type = "Request"
    BY DEF Request
  <2>. QED  BY <1>9, <2>4, <2>5, <2>6 DEF HandleLayoutResponse, RespondWithRaise, RespondWithoutRaise, sm
<1>10. CASE RaiseOne
  <2>0. PICK w \in Targets : \E handles \in HandlesFor({w}) :
          mailbox' = Append(mailbox, Request(responses + 1, << <<w>> >>, w, handles, 0))
    BY <1>10 DEF RaiseOne
  <2>1. PICK handles \in HandlesFor({w}) :
          mailbox' = Append(mailbox, Request(responses + 1, << <<w>> >>, w, handles, 0))
    BY <2>0
  <2>. DEFINE x == Request(responses + 1, << <<w>> >>, w, handles, 0)
  <2>2. x.type = "Request"
    BY DEF Request
  <2>. HIDE DEF x
  <2>3. mailbox \in Seq(Messages \cup {x})
    BY <1>3, SeqMonotonic
  <2>4. Range(mailbox') = Range(mailbox) \cup {x}
    <3>1. mailbox' = Append(mailbox, x)
      BY <2>1 DEF x
    <3>2. x \in Messages \cup {x}
      OBVIOUS
    <3>. QED  BY <2>3, <3>1, <3>2, RangeAppend
  <2>. QED  BY <1>1, <1>2, <1>10, <2>2, <2>4 DEF RaiseOne
<1>11. CASE Iterate
  BY <1>4, <1>11 DEF Iterate
<1>12. CASE SwitchEnds
  BY <1>4, <1>12 DEF SwitchEnds
<1>13. ASSUME NEW a \in Apps, ActivationArrives(a) \/ Terminates(a) PROVE FALSE
  BY <1>4, <1>13 DEF ActivationArrives, Activated, Terminates
<1>14. CASE UNCHANGED vars
  BY <1>4, <1>14 DEF vars
<1>. QED  BY <1>5, <1>6, <1>7, <1>8, <1>9, <1>10, <1>11, <1>12, <1>13, <1>14 DEF Next

\* The ways in which a message may change the active sequence.
Drops == active' = None /\ cancelled' = cancelled \cup {active.token}
Renews ==
  /\ active' = [active EXCEPT !.pending = {}, !.timedOut = FALSE, !.token = <<@[1], @[2] + 1>>]
  /\ cancelled' = cancelled \cup {active.token}
Completes ==
  /\ \E w : <<w, active.id>> \in Done /\ active' = [active EXCEPT !.pending = @ \ {w}]
  /\ UNCHANGED cancelled

Handles ==
  /\ UNCHANGED <<nextId, raises, phase, holder, latest>>
  /\ \/ UNCHANGED <<active, cancelled>>
     \/ active # None /\ (Drops \/ Renews \/ Completes)

\* Steps that leave the sequence and the raises alone.
Aside ==
  /\ UNCHANGED <<queued, nextId, cancelled, newest, raises, holder, latest>>
  /\ active' = active \/ (active # None /\ active' = [active EXCEPT !.timedOut = TRUE])
  /\ \A a \in Apps : phase'[a] \in {"waiting", "raising"} => phase[a] \in {"waiting", "raising"}

LEMMA HandleMessageHandles ==
  ASSUME TypeOK, HandleMessage
  PROVE  Handles
<1>. DEFINE m == Head(mailbox)
<1>1. UNCHANGED <<nextId, raises, phase, holder, latest>>
  BY DEF HandleMessage, apps
<1>2. m \in Range(mailbox)
  BY TailProperties DEF HandleMessage, TypeOK
<1>3. m.type = "Completed" => <<m.window, m.id>> \in Done
  BY <1>2 DEF Done, CompletedIn
<1>4. ASSUME NEW g, Supersede(g)
      PROVE  UNCHANGED <<active, cancelled>> \/ (active # None /\ Drops)
  BY <1>4 DEF Supersede, Superseded, Drops
<1>. HIDE DEF m
<1>5. ASSUME HandleRequest(m) \/ HandleStarted(m) PROVE Handles
  BY <1>1, <1>4, <1>5 DEF HandleRequest, HandleStarted, Handles
<1>6. ASSUME m.type = "Completed", HandleCompleted(m) PROVE Handles
  BY <1>1, <1>3, <1>6 DEF HandleCompleted, Handles, Completes
<1>7. ASSUME HandleTimeout(m) PROVE Handles
  BY <1>1, <1>7 DEF HandleTimeout, Handles, Renews
<1>. QED  BY <1>5, <1>6, <1>7 DEF HandleMessage, m

LEMMA ManagerSteps ==
  ASSUME TypeOK, [Next]_vars, ~\E a \in Apps : ThreadStep(a)
  PROVE  /\ Done' \subseteq Done
         /\ Iterate \/ HandleMessage \/ Aside
<1>1. Done' \subseteq Done
  BY CompletionsStep
<1>2. ASSUME TimerFires PROVE Aside
  BY <1>2 DEF TimerFires, Aside, apps
<1>3. ASSUME HandleLayoutResponse \/ SwitchEnds \/ RaiseOne \/ Relay PROVE Aside
  BY <1>3 DEF HandleLayoutResponse, SwitchEnds, RaiseOne, Relay, Aside, manager, apps
<1>4. ASSUME NEW a \in Apps, ActivationArrives(a) PROVE Aside
  BY <1>4 DEF ActivationArrives, Activated, Aside, manager, TypeOK
<1>5. ASSUME NEW a \in Apps, Terminates(a) PROVE Aside
  BY <1>5 DEF Terminates, Aside, manager, apps
<1>6. ASSUME UNCHANGED vars PROVE Aside
  BY <1>6 DEF vars, manager, apps, Aside
<1>. QED  BY <1>1, <1>2, <1>3, <1>4, <1>5, <1>6 DEF Next

-----------------------------------------------------------------------------
(* Numbers *)

LEMMA NumbersStep ==
  ASSUME TypeOK, NumbersAreUsed, [Next]_vars
  PROVE  NumbersAreUsed'
<1>. DEFINE RaisesAreUsed(n, r) ==
       \A a \in Apps : \A i \in DOMAIN r[a] :
         r[a][i].token[1] < n /\ Receiver(r[a][i].windows) = a
<1>. USE DEF NumbersAreUsed
<1>1. nextId \in Nat /\ RaisesAreUsed(nextId, raises)
  BY DEF TypeOK
<1>2. \A a \in Apps : \A i \in DOMAIN raises[a] : raises[a][i].token[1] \in Nat
  BY RaiseTypes
<1>3. \A t \in cancelled : t[1] \in Nat
  BY DEF TypeOK, Tokens
<1>4. latest.id \in Nat
  BY DEF TypeOK
<1>5. active # None => /\ active \in ActiveSequences /\ active.id \in Nat
                       /\ active.token \in Tokens /\ active.token[1] < nextId
  BY <1>1 DEF TypeOK, Opt, ActiveSequences
<1>6. Progress => RaisesAreUsed(nextId, raises')
  BY <1>1 DEF Progress
<1>7. ASSUME NEW a \in Apps, ThreadStep(a) PROVE NumbersAreUsed'
  <2>1. Progress /\ UNCHANGED <<active, nextId, cancelled>>
    BY <1>7, ThreadProgress DEF ThreadStep, manager
  <2>2. \A b \in Apps : RaiseNext(b) =>
          /\ Current(b).token[1] < nextId
          /\ latest'.id = Current(b).token[1]
    <3>1. \A b \in Apps : RaiseNext(b) => raises[b] # <<>>
      BY DEF RaiseNext, TypeOK
    <3>2. \A b \in Apps : raises[b] # <<>> => 1 \in DOMAIN raises[b] /\ Current(b) = raises[b][1]
      BY CurrentType
    <3>. QED  BY <1>1, <3>1, <3>2 DEF RaiseNext
  <2>3. \A d \in Done' : d[2] < nextId
    BY <2>2, CompletionsStep
  <2>4. latest' = latest \/ RaiseNext(a)
    BY <1>7 DEF ThreadStep, Refuse, Begin, Lock, GiveUp, StopWaiting, RaiseFails
  <2>. QED  BY <1>6, <2>1, <2>2, <2>3, <2>4
<1>8. ASSUME ~\E a \in Apps : ThreadStep(a) PROVE NumbersAreUsed'
  <2>1. Done' \subseteq Done /\ (Iterate \/ HandleMessage \/ Aside)
    BY <1>8, ManagerSteps
  <2>2. CASE Aside
    BY <1>5, <2>1, <2>2 DEF Aside, ActiveSequences
  <2>3. CASE HandleMessage
    <3>1. Handles
      BY <2>3, HandleMessageHandles
    <3>2. active' # None => active'.id = active.id /\ active'.token[1] = active.token[1] /\ active # None
      <4>1. CASE UNCHANGED active
        BY <4>1
      <4>2. CASE active # None /\ (Drops \/ Renews \/ Completes)
        <5>1. active \in ActiveSequences
          BY <1>5, <4>2
        <5>2. active.token[1] = active.id
          BY <4>2
        <5>3. CASE Drops
          BY <5>3 DEF Drops
        <5>4. CASE Renews
          BY <4>2, <5>1, <5>4 DEF Renews, ActiveSequences
        <5>5. CASE Completes
          BY <4>2, <5>1, <5>5 DEF Completes, ActiveSequences
        <5>. QED  BY <4>2, <5>3, <5>4, <5>5
      <4>. QED  BY <3>1, <4>1, <4>2 DEF Handles
    <3>3. \A t \in cancelled' : t \in cancelled \/ (active # None /\ t = active.token)
      BY <3>1 DEF Handles, Drops, Renews, Completes
    <3>. QED  BY <1>1, <1>5, <2>1, <3>1, <3>2, <3>3 DEF Handles
  <2>4. CASE Iterate
    <3>1. latest' = latest /\ cancelled' = cancelled
      BY <2>4 DEF Iterate
    <3>2. ASSUME NEW r \in queued, StartNewSequence(r) PROVE NumbersAreUsed'
      <4>1. nextId' = nextId + 1 /\ raises' = raises /\ active'.id = nextId /\ active'.token[1] = nextId
        BY <3>2 DEF StartNewSequence
      <4>2. \A n \in Nat : n < nextId => n < nextId'
        BY <1>1, <4>1
      <4>3. \A d \in Done' : d \in Done
        BY <2>1
      <4>4. \A d \in Done : d[2] \in Nat
        <5>1. \A m \in Range(mailbox) \cup Range(events) : m \in Messages
          BY RangeOfSeq DEF TypeOK, Messages
        <5>. QED  BY <5>1, MessageTypes DEF Done, CompletedIn
      <4>. QED  BY <1>1, <1>2, <1>3, <1>4, <3>1, <4>1, <4>2, <4>3, <4>4
    <3>3. ASSUME NEW b \in Batches, NEW f \in BOOLEAN, active # None, Send(b, f), nextId' = nextId
          PROVE  RaisesAreUsed(nextId', raises')
      <4>. DEFINE new == [windows |-> b, token |-> active.token, tag |-> active.tag, isFocus |-> f]
      <4>1. new.token[1] < nextId /\ Receiver(new.windows) = Receiver(b)
        BY <1>5, <3>3
      <4>. HIDE DEF new
      <4>2. \A a \in Apps : \A i \in DOMAIN raises'[a] :
              \/ i \in DOMAIN raises[a] /\ raises'[a][i] = raises[a][i]
              \/ a = Receiver(b) /\ raises'[a][i] = new
        BY <3>3, SendAppends DEF new
      <4>. QED  BY <1>1, <3>3, <4>1, <4>2
    <3>4. ASSUME SendNext PROVE NumbersAreUsed'
      <4>1. /\ active # None /\ active.unsent # <<>> /\ active \in ActiveSequences
            /\ nextId' = nextId
        BY <1>5, <3>4 DEF SendNext
      <4>2. Head(active.unsent) \in Batches
        BY <4>1, TailOfGroups DEF ActiveSequences
      <4>3. active' # None => active'.id = active.id /\ active'.token = active.token
        BY <3>4, <4>1 DEF SendNext, ActiveSequences
      <4>4. raises' = raises \/ Send(Head(active.unsent), FALSE)
        BY <3>4 DEF SendNext
      <4>5. RaisesAreUsed(nextId', raises')
        BY <1>1, <3>3, <4>1, <4>2, <4>4
      <4>. QED  BY <2>1, <3>1, <4>1, <4>3, <4>5
    <3>5. ASSUME SendFocus PROVE NumbersAreUsed'
      <4>1. /\ active # None /\ active.focusBatch \in Batches /\ active \in ActiveSequences
            /\ nextId' = nextId
        BY <1>5, <3>5 DEF SendFocus, RaisesDone, ActiveSequences
      <4>2. active' # None => active'.id = active.id /\ active'.token = active.token
        BY <3>5, <4>1 DEF SendFocus, ActiveSequences
      <4>3. raises' = raises \/ Send(active.focusBatch, TRUE)
        BY <3>5 DEF SendFocus
      <4>4. RaisesAreUsed(nextId', raises')
        BY <1>1, <3>3, <4>1, <4>3
      <4>. QED  BY <2>1, <3>1, <4>1, <4>2, <4>4
    <3>6. ASSUME EndSequence PROVE NumbersAreUsed'
      BY <2>1, <3>1, <3>6 DEF EndSequence
    <3>. QED  BY <2>4, <3>2, <3>4, <3>5, <3>6 DEF Iterate
  <2>. QED  BY <2>1, <2>2, <2>3, <2>4
<1>. QED  BY <1>7, <1>8

-----------------------------------------------------------------------------
(* Windows *)

\* A window that is reported is in no raise that is left.
LEMMA ReportedIsGone ==
  ASSUME TypeOK, NEW a \in Apps, RaiseNext(a), NEW i \in DOMAIN raises'[a]
  PROVE  \/ Head(Current(a).windows) \notin Range(raises'[a][i].windows)
         \/ \E j \in DOMAIN raises[a] : j # 1 /\ raises'[a][i] = raises[a][j]
<1>1. raises[a] # <<>>
  BY DEF RaiseNext, TypeOK
<1>2. Current(a) = raises[a][1] /\ 1 \in DOMAIN raises[a] /\ Current(a) \in Raises
  BY <1>1, CurrentType
<1>3. raises \in [Apps -> Seq(Raises)]
  BY DEF TypeOK
<1>4. CASE Len(Current(a).windows) = 1
  <2>1. raises'[a] = Tail(raises[a])
    BY <1>3, <1>4 DEF RaiseNext, Finish
  <2>2. i \in Int /\ i + 1 \in DOMAIN raises[a] /\ raises'[a][i] = raises[a][i + 1] /\ i + 1 # 1
    BY <1>1, <1>3, <2>1, TailProperties
  <2>. QED  BY <2>2
<1>5. CASE Len(Current(a).windows) # 1
  <2>. DEFINE w == raises[a][1].windows
              new == [raises[a][1] EXCEPT !.windows = Tail(w)]
  <2>1. w \in Batches /\ new.windows = Tail(w)
    BY <1>2, RaiseTypes DEF Raises
  <2>2. Head(w) \notin Range(Tail(w))
    BY <1>2, <1>5, <2>1, TailOfBatch
  <2>3. raises'[a] = [raises[a] EXCEPT ![1] = new]
    BY <1>3, <1>5 DEF RaiseNext
  <2>. HIDE DEF new
  <2>4. i \in DOMAIN raises[a] /\ raises'[a][i] = IF i = 1 THEN new ELSE raises[a][i]
    BY <2>3
  <2>. QED  BY <1>2, <2>1, <2>2, <2>4
<1>. QED  BY <1>4, <1>5

LEMMA WindowsStep ==
  ASSUME TypeOK, NumbersAreUsed, WindowsAreRaisedOnce, [Next]_vars
  PROVE  WindowsAreRaisedOnce'
<1>. DEFINE FocusApart(s) ==
       \A i \in DOMAIN s.unsent :
         \/ s.focus \in Range(s.unsent[i])
         \/ Range(s.unsent[i]) \cap Range(s.focusBatch) = {}
       DoneApart(id, dn, un) == \A d \in dn : d[2] = id => d[1] \notin un
       RaiseApart(id, dn, un, s, i) ==
         /\ Range(s[i].windows) \cap un = {}
         /\ \A d \in dn : d[2] = id => d[1] \notin Range(s[i].windows)
         /\ \A j \in DOMAIN s : i # j /\ s[j].token[1] = id =>
              Range(s[i].windows) \cap Range(s[j].windows) = {}
       RaisesApart(id, dn, un, r) ==
         \A a \in Apps : \A i \in DOMAIN r[a] :
           r[a][i].token[1] = id => RaiseApart(id, dn, un, r[a], i)
<1>1. SUFFICES ASSUME active' # None
               PROVE  /\ FocusApart(active')
                      /\ DoneApart(active'.id, Done', Unsent')
                      /\ RaisesApart(active'.id, Done', Unsent', raises')
  BY DEF WindowsAreRaisedOnce
<1>2. active # None => /\ FocusApart(active)
                       /\ DoneApart(active.id, Done, Unsent)
                       /\ RaisesApart(active.id, Done, Unsent, raises)
  BY DEF WindowsAreRaisedOnce
<1>3. active # None => active \in ActiveSequences
  BY DEF TypeOK, Opt
<1>4. ASSUME NEW b \in Apps, ThreadStep(b)
      PROVE  /\ FocusApart(active')
             /\ DoneApart(active'.id, Done', Unsent')
             /\ RaisesApart(active'.id, Done', Unsent', raises')
  <2>1. Progress /\ active' = active
    BY <1>4, ThreadProgress DEF ThreadStep, manager
  <2>2. Unsent' = Unsent
    BY <2>1 DEF Unsent
  <2>. DEFINE id == active.id
  <2>3. \A a \in Apps : \A i \in DOMAIN raises[a] :
          raises[a][i].token[1] = id => RaiseApart(id, Done, Unsent, raises[a], i)
    BY <1>1, <1>2, <2>1
  <2>4. \A a \in Apps : RaiseNext(a) =>
          /\ Head(Current(a).windows) \in Range(Current(a).windows)
          /\ AppOf(Head(Current(a).windows)) = a
          /\ 1 \in DOMAIN raises[a] /\ Current(a) = raises[a][1]
    <3>1. ASSUME NEW a \in Apps, RaiseNext(a) PROVE raises[a] # <<>>
      BY <3>1 DEF RaiseNext, TypeOK
    <3>2. ASSUME NEW a \in Apps, raises[a] # <<>>
          PROVE  /\ 1 \in DOMAIN raises[a] /\ Current(a) = raises[a][1]
                 /\ Current(a).windows \in Batches /\ Receiver(Current(a).windows) = a
      BY <3>2, CurrentType DEF NumbersAreUsed, Raises
    <3>3. ASSUME NEW w \in Batches PROVE Head(w) \in Range(w) /\ AppOf(Head(w)) = Receiver(w)
      BY BatchProperties, TailProperties
    <3>. QED  BY <3>1, <3>2, <3>3
  <2>5. ASSUME NEW d \in Done', d \notin Done, d[2] = id
        PROVE  \E a \in Apps : /\ RaiseNext(a) /\ d[1] = Head(Current(a).windows)
                               /\ raises[a][1].token[1] = id
    BY <2>4, <2>5, CompletionsStep
  <2>6. DoneApart(id, Done', Unsent)
    <3>1. ASSUME NEW d \in Done', d \notin Done, d[2] = id PROVE d[1] \notin Unsent
      <4>1. PICK a \in Apps : /\ RaiseNext(a) /\ d[1] = Head(Current(a).windows)
                              /\ raises[a][1].token[1] = id
        BY <2>5, <3>1
      <4>2. RaiseApart(id, Done, Unsent, raises[a], 1)
        BY <2>3, <2>4, <4>1
      <4>. QED  BY <2>4, <4>1, <4>2
    <3>2. DoneApart(id, Done, Unsent)
      BY <1>1, <1>2, <2>1
    <3>. QED  BY <3>1, <3>2
  <2>7. ASSUME NEW a \in Apps, NEW i \in DOMAIN raises'[a], raises'[a][i].token[1] = id
        PROVE  RaiseApart(id, Done', Unsent, raises'[a], i)
    <3>1. PICK k \in {0, 1} : \A j \in DOMAIN raises'[a] :
            /\ j + k \in DOMAIN raises[a]
            /\ raises'[a][j].token = raises[a][j + k].token
            /\ Receiver(raises'[a][j].windows) = Receiver(raises[a][j + k].windows)
            /\ Range(raises'[a][j].windows) \subseteq Range(raises[a][j + k].windows)
      BY <2>1 DEF Progress
    <3>2. RaiseApart(id, Done, Unsent, raises[a], i + k)
      BY <2>3, <2>7, <3>1
    <3>3. Range(raises'[a][i].windows) \cap Unsent = {}
      BY <3>1, <3>2
    <3>4. ASSUME NEW d \in Done', d[2] = id, d[1] \in Range(raises'[a][i].windows)
          PROVE  FALSE
      <4>1. CASE d \in Done
        BY <3>1, <3>2, <3>4, <4>1
      <4>2. CASE d \notin Done
        <5>1. PICK c \in Apps : /\ RaiseNext(c) /\ d[1] = Head(Current(c).windows)
                                /\ raises[c][1].token[1] = id
          BY <2>5, <3>4, <4>2
        <5>2. CASE c # a
          <6>1. d[1] \in Range(raises[a][i + k].windows)
            BY <3>1, <3>4
          <6>2. AppOf(d[1]) = a
            BY <3>1, <6>1, RaiseTypes, BatchProperties DEF NumbersAreUsed
          <6>. QED  BY <2>4, <5>1, <5>2, <6>2
        <5>3. CASE c = a
          <6>1. PICK j \in DOMAIN raises[a] : j # 1 /\ raises'[a][i] = raises[a][j]
            BY <3>4, <5>1, <5>3, ReportedIsGone
          <6>2. RaiseApart(id, Done, Unsent, raises[a], j)
            BY <2>3, <2>7, <6>1
          <6>. QED  BY <2>4, <3>4, <5>1, <5>3, <6>1, <6>2
        <5>. QED  BY <5>2, <5>3
      <4>. QED  BY <4>1, <4>2
    <3>5. ASSUME NEW j \in DOMAIN raises'[a], i # j, raises'[a][j].token[1] = id
          PROVE  Range(raises'[a][i].windows) \cap Range(raises'[a][j].windows) = {}
      <4>1. j + k \in DOMAIN raises[a] /\ raises[a][j + k].token[1] = id
        BY <3>1, <3>5
      <4>2. i + k # j + k
        <5>1. i + k \in Int /\ j + k \in Int /\ i \in Int /\ j \in Int
          <6>1. TypeOK'
            BY StepType
          <6>2. raises'[a] \in Seq(Raises)
            BY <6>1 DEF TypeOK
          <6>. QED  BY <6>2, LenProperties
        <5>. QED  BY <3>5, <5>1
      <4>. QED  BY <3>1, <3>2, <4>1, <4>2
    <3>. QED  BY <3>3, <3>4, <3>5
  <2>. QED  BY <1>1, <1>2, <2>1, <2>2, <2>6, <2>7
<1>5. ASSUME ~\E a \in Apps : ThreadStep(a)
      PROVE  /\ FocusApart(active')
             /\ DoneApart(active'.id, Done', Unsent')
             /\ RaisesApart(active'.id, Done', Unsent', raises')
  <2>. DEFINE Goal == /\ FocusApart(active')
                      /\ DoneApart(active'.id, Done', Unsent')
                      /\ RaisesApart(active'.id, Done', Unsent', raises')
  <2>1. Done' \subseteq Done /\ (Iterate \/ HandleMessage \/ Aside)
    BY <1>5, ManagerSteps
  <2>2. ASSUME active # None, UNCHANGED raises, active'.id = active.id, Unsent' \subseteq Unsent,
               FocusApart(active')
        PROVE  Goal
    <3>1. ASSUME NEW a \in Apps, NEW i \in DOMAIN raises[a], raises[a][i].token[1] = active.id
          PROVE  RaiseApart(active.id, Done', Unsent', raises[a], i)
      <4>1. RaiseApart(active.id, Done, Unsent, raises[a], i)
        BY <1>2, <2>2, <3>1
      <4>. QED  BY <2>1, <2>2, <4>1
    <3>2. DoneApart(active.id, Done', Unsent')
      BY <1>2, <2>1, <2>2
    <3>. HIDE DEF RaiseApart, DoneApart, FocusApart
    <3>. QED  BY <2>2, <3>1, <3>2
  <2>3. CASE Aside \/ HandleMessage
    <3>1. Aside \/ Handles
      BY <2>3, HandleMessageHandles
    <3>2. /\ active # None /\ UNCHANGED raises
          /\ active'.id = active.id /\ active'.focus = active.focus
          /\ active'.unsent = active.unsent /\ active'.focusBatch = active.focusBatch
      BY <1>1, <1>3, <3>1 DEF Aside, Handles, Drops, Renews, Completes, ActiveSequences
    <3>3. Unsent' = Unsent /\ FocusApart(active')
      BY <1>2, <3>2 DEF Unsent
    <3>. QED  BY <2>2, <3>2, <3>3
  <2>4. ASSUME NEW r \in queued, StartNewSequence(r) PROVE Goal
    <3>1. /\ active'.id = nextId /\ UNCHANGED raises
          /\ active'.focus = r.focus /\ active'.focusBatch = FocusAlone(r.focus)
          /\ active'.unsent = r.batches
      BY <2>4 DEF StartNewSequence
    <3>2. FocusApart(active')
      <4>1. Range(FocusAlone(r.focus)) \subseteq {r.focus}
        BY DEF FocusAlone, Range
      <4>. QED  BY <3>1, <4>1
    <3>3. nextId \in Nat /\ \A a \in Apps : \A i \in DOMAIN raises[a] :
            raises[a][i].token[1] # nextId
      BY RaiseTypes DEF NumbersAreUsed, TypeOK
    <3>4. \A d \in Done : d[2] # nextId
      BY <3>3 DEF NumbersAreUsed
    <3>. QED  BY <2>1, <3>1, <3>2, <3>3, <3>4
  <2>5. ASSUME NEW b \in Batches, NEW f \in BOOLEAN, active # None, Send(b, f),
               active'.id = active.id, Unsent' \subseteq Unsent, FocusApart(active'),
               Range(b) \subseteq Unsent, Range(b) \cap Unsent' = {}
        PROVE  Goal
    <3>. DEFINE id == active.id
                new == [windows |-> b, token |-> active.token, tag |-> active.tag, isFocus |-> f]
    <3>1. new.windows = b
      OBVIOUS
    <3>. HIDE DEF new
    <3>2. \A a \in Apps : \A i \in DOMAIN raises'[a] :
            \/ i \in DOMAIN raises[a] /\ raises'[a][i] = raises[a][i]
            \/ a = Receiver(b) /\ i = Len(raises[a]) + 1 /\ raises'[a][i] = new
      BY <2>5, SendAppends DEF new
    <3>3. ASSUME NEW a \in Apps, NEW i \in DOMAIN raises'[a], raises'[a][i].token[1] = id
          PROVE  RaiseApart(id, Done', Unsent', raises'[a], i)
      <4>1. ASSUME NEW j \in DOMAIN raises[a], raises[a][j].token[1] = id
            PROVE  Range(raises[a][j].windows) \cap Range(b) = {}
        BY <1>2, <2>5, <4>1
      <4>2. CASE i \in DOMAIN raises[a] /\ raises'[a][i] = raises[a][i]
        <5>1. RaiseApart(id, Done, Unsent, raises[a], i)
          BY <1>2, <2>5, <3>3, <4>2
        <5>2. ASSUME NEW j \in DOMAIN raises'[a], i # j, raises'[a][j].token[1] = id
              PROVE  Range(raises'[a][i].windows) \cap Range(raises'[a][j].windows) = {}
          BY <3>1, <3>2, <3>3, <4>1, <4>2, <5>1, <5>2
        <5>. QED  BY <2>1, <2>5, <4>2, <5>1, <5>2
      <4>3. CASE i = Len(raises[a]) + 1 /\ raises'[a][i] = new
        <5>1. Range(new.windows) \cap Unsent' = {}
          BY <2>5, <3>1
        <5>2. \A d \in Done' : d[2] = id => d[1] \notin Range(b)
          BY <1>2, <2>1, <2>5
        <5>3. ASSUME NEW j \in DOMAIN raises'[a], i # j, raises'[a][j].token[1] = id
              PROVE  Range(b) \cap Range(raises'[a][j].windows) = {}
          BY <3>2, <4>1, <4>3, <5>3
        <5>. QED  BY <3>1, <4>3, <5>1, <5>2, <5>3
      <4>. QED  BY <3>2, <4>2, <4>3
    <3>. QED  BY <1>2, <2>1, <2>5, <3>3
  <2>6. ASSUME SendNext PROVE Goal
    <3>. DEFINE batch == Head(active.unsent)
                rest == [active EXCEPT !.unsent = Tail(@)]
    <3>1. active # None /\ active \in ActiveSequences /\ active.unsent \in Groups /\ active.unsent # <<>>
      BY <1>3, <2>6 DEF SendNext, ActiveSequences
    <3>2. /\ Tail(active.unsent) \in Groups /\ batch \in Batches
          /\ WindowsOf(active.unsent) = WindowsOf(Tail(active.unsent)) \cup Range(batch)
          /\ Range(batch) \cap WindowsOf(Tail(active.unsent)) = {}
      BY <3>1, TailOfGroups
    <3>3. /\ 1 \in DOMAIN active.unsent /\ batch = active.unsent[1]
          /\ \A i \in DOMAIN Tail(active.unsent) :
               i + 1 \in DOMAIN active.unsent /\ Tail(active.unsent)[i] = active.unsent[i + 1]
      BY <3>1, TailProperties DEF Groups
    <3>4. /\ active'.id = active.id /\ active'.focus = active.focus
          /\ active'.unsent = Tail(active.unsent)
      BY <2>6, <3>1 DEF SendNext, ActiveSequences
    <3>5. ASSUME active.focus \in Range(batch),
                 active' = [rest EXCEPT !.focusBatch = FocusLast(batch, active.focus)],
                 UNCHANGED raises
          PROVE  Goal
      <4>1. active'.focusBatch = FocusLast(batch, active.focus)
        BY <3>1, <3>5 DEF ActiveSequences
      <4>2. Range(active'.focusBatch) = Range(batch)
        BY <3>2, <3>5, <4>1, FocusLastIsBatch
      <4>3. Unsent' \subseteq Unsent
        BY <3>2, <3>4, <4>2 DEF Unsent
      <4>4. FocusApart(active')
        <5>1. \A i \in DOMAIN Tail(active.unsent) :
                Range(Tail(active.unsent)[i]) \subseteq WindowsOf(Tail(active.unsent))
          BY DEF WindowsOf
        <5>. QED  BY <3>2, <3>4, <4>2, <5>1
      <4>. QED  BY <2>2, <3>1, <3>4, <3>5, <4>3, <4>4
    <3>6. active'.focusBatch = active.focusBatch => FocusApart(active') /\ Unsent' \subseteq Unsent
      BY <1>2, <3>1, <3>2, <3>3, <3>4 DEF Unsent
    <3>7. ASSUME active' = rest, UNCHANGED raises PROVE Goal
      <4>1. active'.focusBatch = active.focusBatch
        BY <3>1, <3>7 DEF ActiveSequences
      <4>. QED  BY <2>2, <3>1, <3>4, <3>6, <3>7, <4>1
    <3>8. ASSUME active.focus \notin Range(batch), active' = [rest EXCEPT !.pending = @ \cup Range(batch)],
                 Send(batch, FALSE)
          PROVE  Goal
      <4>1. active'.focusBatch = active.focusBatch
        BY <3>1, <3>8 DEF ActiveSequences
      <4>2. Range(batch) \cap Range(active.focusBatch) = {}
        BY <1>2, <3>1, <3>3, <3>8
      <4>3. Range(batch) \subseteq Unsent /\ Range(batch) \cap Unsent' = {}
        BY <3>2, <3>4, <4>1, <4>2 DEF Unsent
      <4>. QED  BY <2>5, <3>1, <3>2, <3>4, <3>6, <3>8, <4>1, <4>3
    <3>. QED  BY <2>6, <3>5, <3>7, <3>8 DEF SendNext
  <2>7. ASSUME SendFocus PROVE Goal
    <3>. DEFINE batch == active.focusBatch
    <3>1. /\ active # None /\ active \in ActiveSequences /\ batch \in Batches
          /\ active.unsent = <<>>
      BY <1>3, <2>7 DEF SendFocus, RaisesDone, ActiveSequences
    <3>2. active'.id = active.id /\ active'.unsent = <<>> /\ active'.focusBatch = <<>>
      BY <2>7, <3>1 DEF SendFocus, ActiveSequences
    <3>3. Unsent' = {}
      BY <3>2 DEF Unsent, WindowsOf, Range
    <3>4. FocusApart(active') /\ Range(batch) \subseteq Unsent
      BY <3>2 DEF Unsent
    <3>5. UNCHANGED raises \/ Send(batch, TRUE)
      BY <2>7 DEF SendFocus
    <3>. QED  BY <2>2, <2>5, <3>1, <3>2, <3>3, <3>4, <3>5
  <2>8. ASSUME EndSequence PROVE FALSE
    BY <1>1, <2>8 DEF EndSequence
  <2>. QED  BY <2>1, <2>3, <2>4, <2>6, <2>7, <2>8 DEF Iterate
<1>. QED  BY <1>4, <1>5

-----------------------------------------------------------------------------
(* Tokens *)

LEMMA NoneLiveWhenDone ==
  ASSUME TypeOK, TokensAreFresh, WaitsForItsRaises, RaisesDone,
         NEW a \in Apps, NEW i \in DOMAIN raises[a]
  PROVE  ~Live(raises[a][i].token)
<1>1. Range(raises[a][i].windows) # {}
  BY RaiseTypes
<1>2. active # None /\ active.pending = {}
  BY DEF RaisesDone
<1>. QED  BY <1>1, <1>2 DEF WaitsForItsRaises

LEMMA TokensStep ==
  ASSUME TypeOK, NumbersAreUsed, WindowsAreRaisedOnce, TokensAreFresh, WaitsForItsRaises, [Next]_vars
  PROVE  TokensAreFresh' /\ WaitsForItsRaises'
<1>. DEFINE Newest(c, s) == \A t \in c : t[1] = s.id => t[2] < s.token[2]
            Its(r, s) == r.token = s.token /\ r.tag = s.tag /\ Range(r.windows) \subseteq s.pending
            Goal == /\ active' # None => Newest(cancelled', active')
                    /\ \A a \in Apps : \A i \in DOMAIN raises'[a] :
                         raises'[a][i].token \notin cancelled' =>
                           active' # None /\ Its(raises'[a][i], active')
<1>1. SUFFICES Goal
  BY DEF TokensAreFresh, WaitsForItsRaises, Live
<1>2. /\ active # None => Newest(cancelled, active)
      /\ \A a \in Apps : \A i \in DOMAIN raises[a] :
           raises[a][i].token \notin cancelled => active # None /\ Its(raises[a][i], active)
  BY DEF TokensAreFresh, WaitsForItsRaises, Live
<1>3. active # None => /\ active \in ActiveSequences /\ active.id \in Nat /\ active.token \in Tokens
                       /\ active.token[1] = active.id /\ active.token[2] \in Nat
                       /\ active.token = <<active.id, active.token[2]>>
  BY DEF TypeOK, Opt, ActiveSequences, NumbersAreUsed, Tokens
<1>4. cancelled \subseteq Tokens
  BY DEF TypeOK
<1>5. ASSUME NEW b \in Apps, ThreadStep(b) PROVE Goal
  <2>1. Progress /\ UNCHANGED <<active, cancelled>>
    BY <1>5, ThreadProgress DEF ThreadStep, manager
  <2>2. ASSUME NEW a \in Apps, NEW i \in DOMAIN raises'[a], raises'[a][i].token \notin cancelled
        PROVE  active # None /\ Its(raises'[a][i], active)
    <3>1. PICK j \in DOMAIN raises[a] :
            /\ raises'[a][i].token = raises[a][j].token /\ raises'[a][i].tag = raises[a][j].tag
            /\ Range(raises'[a][i].windows) \subseteq Range(raises[a][j].windows)
      BY <2>1 DEF Progress
    <3>. QED  BY <1>2, <2>2, <3>1
  <2>. QED  BY <1>2, <2>1, <2>2
<1>6. ASSUME ~\E a \in Apps : ThreadStep(a) PROVE Goal
  <2>1. Iterate \/ HandleMessage \/ Aside
    BY <1>6, ManagerSteps
  <2>2. ASSUME active # None, UNCHANGED <<raises, cancelled>>, active' \in ActiveSequences,
               active'.id = active.id, active'.token = active.token, active'.tag = active.tag,
               active.pending \subseteq active'.pending
        PROVE  Goal
    <3>1. active' # None
      BY <2>2, NoneIsNoSequence
    <3>. QED  BY <1>2, <2>2, <3>1
  <2>3. ASSUME UNCHANGED <<active, raises, cancelled>> PROVE Goal
    BY <1>2, <2>3
  <2>4. CASE Aside
    <3>1. CASE active # None /\ active' = [active EXCEPT !.timedOut = TRUE]
      BY <1>3, <2>2, <2>4, <3>1 DEF Aside, ActiveSequences
    <3>. QED  BY <2>3, <2>4, <3>1 DEF Aside
  <2>5. CASE HandleMessage
    <3>1. Handles
      BY <2>5, HandleMessageHandles
    <3>2. CASE UNCHANGED <<active, cancelled>>
      BY <2>3, <3>1, <3>2 DEF Handles
    <3>3. ASSUME cancelled' = cancelled \cup {active.token}, active # None,
                 NEW a \in Apps, NEW i \in DOMAIN raises[a]
          PROVE  raises[a][i].token \in cancelled'
      BY <1>2, <3>3
    <3>4. CASE active # None /\ Drops
      BY <3>1, <3>3, <3>4 DEF Drops, Handles
    <3>5. CASE active # None /\ Renews
      <4>1. active'.id = active.id /\ active'.token[2] = active.token[2] + 1
        BY <1>3, <3>5 DEF Renews, ActiveSequences
      <4>2. \A t \in cancelled : t[2] \in Nat
        BY <1>4 DEF Tokens
      <4>3. ASSUME NEW t \in cancelled, t[1] = active.id
            PROVE  t[2] < active.token[2] + 1
        <5>1. t[2] < active.token[2]
          BY <1>2, <3>5, <4>3
        <5>. QED  BY <1>3, <3>5, <4>2, <5>1
      <4>4. Newest(cancelled', active')
        BY <1>3, <3>5, <4>1, <4>3 DEF Renews
      <4>. QED  BY <3>1, <3>3, <3>5, <4>4 DEF Handles, Renews
    <3>6. CASE active # None /\ Completes
      <4>1. PICK w : <<w, active.id>> \in Done /\ active' = [active EXCEPT !.pending = @ \ {w}]
        BY <3>6 DEF Completes
      <4>2. /\ active'.id = active.id /\ active'.token = active.token /\ active'.tag = active.tag
            /\ active'.pending = active.pending \ {w}
        BY <1>3, <3>6, <4>1 DEF ActiveSequences
      <4>3. ASSUME NEW a \in Apps, NEW i \in DOMAIN raises[a], raises[a][i].token \notin cancelled
            PROVE  w \notin Range(raises[a][i].windows)
        <5>1. raises[a][i].token[1] = active.id
          BY <1>2, <1>3, <4>3
        <5>. QED  BY <3>6, <4>1, <5>1 DEF WindowsAreRaisedOnce
      <4>4. active' # None
        BY <1>3, <3>6, <4>1, NoneIsNoSequence DEF ActiveSequences
      <4>. QED  BY <1>2, <3>1, <3>6, <4>2, <4>3, <4>4 DEF Handles, Completes
    <3>. QED  BY <3>1, <3>2, <3>4, <3>5, <3>6 DEF Handles
  <2>6. ASSUME Iterate, NEW r \in queued, StartNewSequence(r) PROVE Goal
    <3>1. /\ active = None /\ UNCHANGED raises /\ active'.id = nextId
      BY <2>6 DEF StartNewSequence
    <3>2. UNCHANGED cancelled
      BY <2>6 DEF Iterate
    <3>3. \A t \in cancelled : t[1] # nextId
      BY <1>4 DEF NumbersAreUsed, TypeOK, Tokens
    <3>. QED  BY <1>2, <3>1, <3>2, <3>3
  <2>7. ASSUME NEW b \in Batches, NEW f \in BOOLEAN, active # None, Send(b, f),
               UNCHANGED cancelled, active' \in ActiveSequences, active'.id = active.id,
               active'.token = active.token, active'.tag = active.tag,
               Range(b) \subseteq active'.pending,
               active.pending \subseteq active'.pending
        PROVE  Goal
    <3>1. active' # None
      BY <2>7, NoneIsNoSequence
    <3>2. ASSUME NEW a \in Apps, NEW i \in DOMAIN raises'[a], raises'[a][i].token \notin cancelled
          PROVE  Its(raises'[a][i], active')
      <4>1. CASE i \in DOMAIN raises[a] /\ raises'[a][i] = raises[a][i]
        BY <1>2, <2>7, <3>2, <4>1
      <4>2. CASE raises'[a][i] = [windows |-> b, token |-> active.token,
                                  tag |-> active.tag, isFocus |-> f]
        BY <2>7, <4>2
      <4>. QED  BY <2>7, <4>1, <4>2, SendAppends
    <3>. QED  BY <1>2, <2>7, <3>1, <3>2
  <2>8. ASSUME Iterate, SendNext PROVE Goal
    <3>. DEFINE batch == Head(active.unsent)
                rest == [active EXCEPT !.unsent = Tail(@)]
    <3>1. active # None /\ active \in ActiveSequences /\ active.unsent \in Groups /\ active.unsent # <<>>
      BY <1>3, <2>8 DEF SendNext, ActiveSequences
    <3>2. Tail(active.unsent) \in Groups /\ batch \in Batches /\ Range(batch) \subseteq Windows
      BY <3>1, TailOfGroups, BatchProperties
    <3>3. UNCHANGED cancelled
      BY <2>8 DEF Iterate
    <3>4. /\ rest \in ActiveSequences /\ rest.id = active.id /\ rest.token = active.token
          /\ rest.tag = active.tag /\ rest.pending = active.pending
      BY <3>1, <3>2 DEF ActiveSequences
    <3>. HIDE DEF rest
    <3>5. ASSUME active' = rest, UNCHANGED raises PROVE Goal
      BY <2>2, <3>1, <3>3, <3>4, <3>5
    <3>6. ASSUME active.focus \in Range(batch), UNCHANGED raises,
                 active' = [rest EXCEPT !.focusBatch = FocusLast(batch, active.focus)]
          PROVE  Goal
      <4>1. FocusLast(batch, active.focus) \in Batches
        BY <3>2, <3>6, FocusLastIsBatch
      <4>2. /\ active' \in ActiveSequences /\ active'.id = active.id /\ active'.token = active.token
            /\ active'.tag = active.tag /\ active'.pending = active.pending
        BY <3>4, <3>6, <4>1 DEF ActiveSequences
      <4>. QED  BY <2>2, <3>1, <3>3, <3>6, <4>2
    <3>7. ASSUME active' = [rest EXCEPT !.pending = @ \cup Range(batch)], Send(batch, FALSE)
          PROVE  Goal
      <4>1. /\ active' \in ActiveSequences /\ active'.id = active.id /\ active'.token = active.token
            /\ active'.tag = active.tag /\ active'.pending = active.pending \cup Range(batch)
        BY <3>2, <3>4, <3>7 DEF ActiveSequences
      <4>. QED  BY <2>7, <3>1, <3>2, <3>3, <3>7, <4>1
    <3>. QED  BY <2>8, <3>5, <3>6, <3>7 DEF SendNext, rest
  <2>9. ASSUME Iterate, SendFocus PROVE Goal
    <3>. DEFINE batch == active.focusBatch
                rest == [active EXCEPT !.focusBatch = <<>>]
    <3>1. /\ active # None /\ active \in ActiveSequences /\ batch \in Batches
          /\ active.pending = {} /\ Range(batch) \subseteq Windows
      BY <1>3, <2>9, BatchProperties DEF SendFocus, RaisesDone, ActiveSequences
    <3>2. UNCHANGED cancelled
      BY <2>9 DEF Iterate
    <3>3. /\ rest \in ActiveSequences /\ rest.id = active.id /\ rest.token = active.token
          /\ rest.tag = active.tag /\ rest.pending = active.pending
      BY <3>1 DEF ActiveSequences
    <3>. HIDE DEF rest
    <3>4. ASSUME active' = rest, UNCHANGED raises PROVE Goal
      BY <2>2, <3>1, <3>2, <3>3, <3>4
    <3>5. ASSUME active' = [rest EXCEPT !.pending = Range(batch)], Send(batch, TRUE) PROVE Goal
      <4>1. /\ active' \in ActiveSequences /\ active'.id = active.id /\ active'.token = active.token
            /\ active'.tag = active.tag /\ active'.pending = Range(batch)
        BY <3>1, <3>3, <3>5 DEF ActiveSequences
      <4>. QED  BY <2>7, <3>1, <3>2, <3>5, <4>1
    <3>. QED  BY <2>9, <3>4, <3>5 DEF SendFocus, rest
  <2>10. ASSUME Iterate, EndSequence PROVE Goal
    <3>1. active' = None /\ UNCHANGED <<raises, cancelled>> /\ RaisesDone
      BY <2>10 DEF Iterate, EndSequence
    <3>. QED  BY <3>1, NoneLiveWhenDone DEF Live
  <2>. QED  BY <2>1, <2>4, <2>5, <2>6, <2>8, <2>9, <2>10 DEF Iterate
<1>. QED  BY <1>5, <1>6

LEMMA TagsStep ==
  ASSUME TypeOK, TagsAreNewest, [Next]_vars
  PROVE  TagsAreNewest'
<1>. USE DEF TagsAreNewest
<1>1. active # None => active \in ActiveSequences
  BY DEF TypeOK, Opt
<1>2. CASE Iterate
  <2>1. UNCHANGED newest
    BY <1>2 DEF Iterate
  <2>2. ASSUME NEW r \in queued, StartNewSequence(r) PROVE TagsAreNewest'
    BY <2>1, <2>2 DEF StartNewSequence
  <2>3. CASE SendNext
    BY <1>1, <2>1, <2>3 DEF SendNext, ActiveSequences
  <2>4. CASE SendFocus
    BY <1>1, <2>1, <2>4 DEF SendFocus, RaisesDone, ActiveSequences
  <2>5. CASE EndSequence
    BY <2>1, <2>5 DEF EndSequence
  <2>. QED  BY <1>2, <2>2, <2>3, <2>4, <2>5 DEF Iterate
<1>3. CASE HandleMessage
  <2>. DEFINE m == Head(mailbox)
  <2>1. ASSUME HandleRequest(m) PROVE TagsAreNewest'
    BY <2>1 DEF HandleRequest, Supersede, Superseded, Untagged
  <2>2. ASSUME HandleStarted(m) PROVE TagsAreNewest'
    BY <2>2 DEF HandleStarted, Supersede, Superseded, Untagged
  <2>3. ASSUME HandleCompleted(m) PROVE TagsAreNewest'
    BY <1>1, <2>3 DEF HandleCompleted, ActiveSequences
  <2>4. ASSUME HandleTimeout(m) PROVE TagsAreNewest'
    BY <1>1, <2>4 DEF HandleTimeout, ActiveSequences
  <2>. QED  BY <1>3, <2>1, <2>2, <2>3, <2>4 DEF HandleMessage
<1>4. ASSUME NEW a \in Apps, ThreadStep(a) PROVE TagsAreNewest'
  BY <1>4 DEF ThreadStep, manager
<1>5. CASE Aside
  BY <1>1, <1>5 DEF Aside, ActiveSequences
<1>. QED  BY <1>2, <1>3, <1>4, <1>5, ManagerSteps

-----------------------------------------------------------------------------
(* The order of the raises *)

LEMMA FocusStep ==
  ASSUME TypeOK, NumbersAreUsed, TokensAreFresh, WaitsForItsRaises, FocusIsLast, [Next]_vars
  PROVE  FocusIsLast'
<1>. DEFINE Raised(s, l, r) ==
              \/ l.id = s.id /\ l.isFocus
              \/ \E a \in Apps : \E i \in DOMAIN r[a] : r[a][i].token[1] = s.id /\ r[a][i].isFocus
            NothingElse(s, c, r) ==
              /\ s.unsent = <<>> /\ s.focusBatch = <<>>
              /\ \A a \in Apps : \A i \in DOMAIN r[a] : r[a][i].token \notin c => r[a][i].isFocus
            Goal == active' # None /\ Raised(active', latest', raises') =>
                      NothingElse(active', cancelled', raises')
<1>1. SUFFICES Goal
  BY DEF FocusIsLast, Live
<1>2. active # None /\ Raised(active, latest, raises) => NothingElse(active, cancelled, raises)
  BY DEF FocusIsLast, Live
<1>3. active # None => active \in ActiveSequences
  BY DEF TypeOK, Opt
<1>4. ASSUME NEW b \in Apps, ThreadStep(b) PROVE Goal
  <2>1. Progress /\ UNCHANGED <<active, cancelled>>
    BY <1>4, ThreadProgress DEF ThreadStep, manager
  <2>2. ASSUME active # None, Raised(active, latest', raises') PROVE Raised(active, latest, raises)
    <3>1. CASE latest'.id = active.id /\ latest'.isFocus
      <4>1. CASE UNCHANGED latest
        BY <3>1, <4>1
      <4>2. CASE RaiseNext(b)
        <5>1. raises[b] # <<>>
          BY <4>2 DEF RaiseNext, TypeOK
        <5>2. 1 \in DOMAIN raises[b] /\ Current(b) = raises[b][1]
          BY <5>1, CurrentType
        <5>3. latest'.id = Current(b).token[1] /\ latest'.isFocus = Current(b).isFocus
          BY <4>2 DEF RaiseNext
        <5>. QED  BY <3>1, <5>2, <5>3
      <4>. QED  BY <1>4, <4>1, <4>2 DEF ThreadStep, Refuse, Begin, Lock, GiveUp, StopWaiting, RaiseFails
    <3>2. ASSUME NEW a \in Apps, NEW i \in DOMAIN raises'[a],
                 raises'[a][i].token[1] = active.id, raises'[a][i].isFocus
          PROVE  Raised(active, latest, raises)
      BY <2>1, <3>2 DEF Progress
    <3>. QED  BY <2>2, <3>1, <3>2
  <2>3. ASSUME NothingElse(active, cancelled, raises) PROVE NothingElse(active, cancelled, raises')
    BY <2>1, <2>3 DEF Progress
  <2>. QED  BY <1>2, <2>1, <2>2, <2>3
<1>5. ASSUME ~\E a \in Apps : ThreadStep(a) PROVE Goal
  <2>1. Iterate \/ HandleMessage \/ Aside
    BY <1>5, ManagerSteps
  <2>2. CASE Aside \/ HandleMessage
    <3>1. Aside \/ Handles
      BY <2>2, HandleMessageHandles
    <3>2. /\ UNCHANGED <<raises, latest>> /\ cancelled \subseteq cancelled'
          /\ active' # None => /\ active # None /\ active'.id = active.id
                               /\ active'.unsent = active.unsent
                               /\ active'.focusBatch = active.focusBatch
      <4>1. UNCHANGED <<raises, latest>> /\ cancelled \subseteq cancelled'
        BY <3>1 DEF Aside, Handles, Drops, Renews, Completes
      <4>2. ASSUME active' # None PROVE active # None
        BY <3>1, <4>2 DEF Aside, Handles
      <4>3. ASSUME active' # None, active \in ActiveSequences
            PROVE  /\ active'.id = active.id /\ active'.unsent = active.unsent
                   /\ active'.focusBatch = active.focusBatch
        BY <3>1, <4>3 DEF Aside, Handles, Drops, Renews, Completes, ActiveSequences
      <4>. QED  BY <1>3, <4>1, <4>2, <4>3
    <3>. QED  BY <1>2, <3>2
  <2>3. ASSUME Iterate, NEW r \in queued, StartNewSequence(r) PROVE Goal
    <3>1. active'.id = nextId /\ UNCHANGED <<raises, latest>> /\ nextId \in Nat /\ latest.id \in Nat
      BY <2>3 DEF StartNewSequence, Iterate, TypeOK
    <3>2. ~Raised(active', latest', raises')
      BY <3>1, RaiseTypes DEF NumbersAreUsed
    <3>. QED  BY <3>2
  <2>4. ASSUME Iterate, SendNext PROVE Goal
    <3>1. active # None /\ active.unsent # <<>> /\ UNCHANGED latest /\ active.unsent \in Groups
      BY <1>3, <2>4 DEF SendNext, Iterate, ActiveSequences
    <3>2. active'.id = active.id
      BY <1>3, <2>4, <3>1 DEF SendNext, ActiveSequences
    <3>3. ~Raised(active, latest, raises)
      BY <1>2, <3>1
    <3>4. Head(active.unsent) \in Batches
      BY <3>1, TailOfGroups
    <3>5. ASSUME NEW a \in Apps, NEW i \in DOMAIN raises'[a],
                 raises'[a][i].token[1] = active.id, raises'[a][i].isFocus
          PROVE  FALSE
      <4>1. CASE UNCHANGED raises
        BY <3>3, <3>5, <4>1
      <4>2. CASE Send(Head(active.unsent), FALSE)
        <5>1. CASE i \in DOMAIN raises[a] /\ raises'[a][i] = raises[a][i]
          BY <3>3, <3>5, <5>1
        <5>2. CASE ~(i \in DOMAIN raises[a] /\ raises'[a][i] = raises[a][i])
          <6>1. raises'[a][i] = [windows |-> Head(active.unsent), token |-> active.token,
                                 tag |-> active.tag, isFocus |-> FALSE]
            BY <3>1, <3>4, <4>2, <5>2, SendAppends
          <6>. QED  BY <3>5, <6>1
        <5>. QED  BY <5>1, <5>2
      <4>. QED  BY <2>4, <4>1, <4>2 DEF SendNext
    <3>. QED  BY <3>1, <3>2, <3>3, <3>5
  <2>5. ASSUME Iterate, SendFocus PROVE Goal
    <3>1. /\ active # None /\ active.unsent = <<>> /\ RaisesDone /\ active.focusBatch \in Batches
          /\ UNCHANGED cancelled
      BY <1>3, <2>5 DEF SendFocus, RaisesDone, Iterate, ActiveSequences
    <3>2. active'.unsent = <<>> /\ active'.focusBatch = <<>>
      BY <1>3, <2>5, <3>1 DEF SendFocus, ActiveSequences
    <3>3. ASSUME NEW a \in Apps, NEW i \in DOMAIN raises'[a], raises'[a][i].token \notin cancelled
          PROVE  raises'[a][i].isFocus
      <4>1. CASE i \in DOMAIN raises[a] /\ raises'[a][i] = raises[a][i]
        BY <3>1, <3>3, <4>1, NoneLiveWhenDone DEF Live
      <4>2. CASE ~(i \in DOMAIN raises[a] /\ raises'[a][i] = raises[a][i])
        <5>1. Send(active.focusBatch, TRUE)
          BY <2>5, <3>3, <4>2 DEF SendFocus
        <5>2. raises'[a][i] = [windows |-> active.focusBatch, token |-> active.token,
                               tag |-> active.tag, isFocus |-> TRUE]
          BY <3>1, <4>2, <5>1, SendAppends
        <5>. QED  BY <5>2
      <4>. QED  BY <4>1, <4>2
    <3>. QED  BY <3>1, <3>2, <3>3
  <2>6. ASSUME EndSequence PROVE Goal
    BY <2>6 DEF EndSequence
  <2>. QED  BY <2>1, <2>2, <2>3, <2>4, <2>5, <2>6 DEF Iterate
<1>. QED  BY <1>4, <1>5

LEMMA HolderStep ==
  ASSUME IInv, [Next]_vars
  PROVE  HolderRaises' /\ HolderIsInOrder'
<1>. DEFINE Holding == {"waiting", "raising"}
            InOrder(l, c) == l.id <= c.token[1] /\ (l.id = c.token[1] /\ l.isFocus => c.isFocus)
            Goal == \A a \in Apps : phase'[a] \in Holding =>
                      holder' = a /\ InOrder(latest', Current(a)')
<1>. USE DEF IInv
<1>1. SUFFICES Goal
  BY DEF HolderRaises, HolderIsInOrder
<1>2. \A a \in Apps : phase[a] \in Holding => holder = a /\ InOrder(latest, Current(a))
  BY DEF HolderRaises, HolderIsInOrder
<1>3. \A a \in Apps : phase[a] \in Holding => raises[a] # <<>>
  BY DEF TypeOK
<1>4. ASSUME NEW b \in Apps, ThreadStep(b) PROVE Goal
  <2>1. /\ raises \in [Apps -> Seq(Raises)] /\ phase \in [Apps -> {"idle", "blocked", "waiting", "raising"}]
    BY DEF TypeOK
  <2>2. \A a \in Apps : a # b => phase'[a] = phase[a] /\ raises'[a] = raises[a]
    BY <1>4, <2>1 DEF ThreadStep, Refuse, Begin, Lock, GiveUp, StopWaiting, RaiseNext, RaiseFails, Finish
  <2>3. \A a \in Apps : a # b => Current(a)' = Current(a)
    BY <2>2 DEF Current
  <2>4. ASSUME NEW a \in Apps, a # b, phase'[a] \in Holding
        PROVE  holder' = a /\ InOrder(latest', Current(a)')
    <3>1. holder = a /\ InOrder(latest, Current(a)) /\ a # None
      BY <1>2, <2>2, <2>4, RaiseAssumption DEF RaiseAssumption
    <3>2. ~RaiseNext(b) /\ ~Lock(b)
      BY <1>2, <2>4, <3>1 DEF RaiseNext, Lock
    <3>3. holder' = holder /\ latest' = latest
      BY <1>4, <2>4, <3>1, <3>2
         DEF ThreadStep, Refuse, Begin, GiveUp, StopWaiting, RaiseFails, Finish
    <3>. QED  BY <2>3, <2>4, <3>1, <3>3
  <2>5. ASSUME phase'[b] \in Holding PROVE holder' = b /\ InOrder(latest', Current(b)')
    <3>1. CASE Lock(b)
      <4>1. raises[b] # <<>> /\ UNCHANGED <<raises, latest>> /\ holder' = b
        BY <3>1 DEF Lock, TypeOK
      <4>2. 1 \in DOMAIN raises[b] /\ Current(b) = raises[b][1] /\ Current(b)' = Current(b)
        BY <4>1, CurrentType DEF Current
      <4>3. Live(raises[b][1].token)
        BY <3>1, <4>2 DEF Lock
      <4>4. active # None /\ raises[b][1].token = active.token
        BY <4>2, <4>3 DEF TokensAreFresh
      <4>5. active.id = raises[b][1].token[1] /\ active.id + 1 = nextId /\ latest.id < nextId
        BY <4>4 DEF NumbersAreUsed
      <4>6. latest.id \in Nat /\ nextId \in Nat /\ active.id \in Nat
        BY <4>4 DEF TypeOK, Opt, ActiveSequences
      <4>7. latest.id = active.id /\ latest.isFocus => raises[b][1].isFocus
        BY <4>2, <4>3, <4>4 DEF FocusIsLast
      <4>. QED  BY <4>1, <4>2, <4>5, <4>6, <4>7
    <3>2. CASE RaiseNext(b)
      <4>1. Len(Current(b).windows) # 1
        BY <2>1, <2>5, <3>2 DEF RaiseNext, Finish
      <4>2. raises[b] # <<>> /\ holder = b /\ UNCHANGED holder
        BY <1>2, <1>3, <3>2, <4>1 DEF RaiseNext
      <4>3. Current(b) = raises[b][1] /\ 1 \in DOMAIN raises[b] /\ Current(b) \in Raises
        BY <4>2, CurrentType
      <4>4. /\ latest'.id = Current(b).token[1] /\ latest'.isFocus = Current(b).isFocus
            /\ Current(b).token[1] \in Nat
        BY <3>2, <4>3 DEF RaiseNext, Raises, Tokens
      <4>. DEFINE new == [raises[b][1] EXCEPT !.windows = Tail(@)]
      <4>5. new.token = raises[b][1].token /\ new.isFocus = raises[b][1].isFocus
        BY <4>3 DEF Raises
      <4>6. raises'[b] = [raises[b] EXCEPT ![1] = new]
        BY <2>1, <3>2, <4>1 DEF RaiseNext
      <4>. HIDE DEF new
      <4>7. Head(raises'[b]) = new
        BY <2>1, <4>3, <4>6
      <4>8. Current(b)' = new
        BY <4>7 DEF Current
      <4>. QED  BY <4>2, <4>3, <4>4, <4>5, <4>8
    <3>3. CASE Begin(b)
      BY <2>1, <2>5, <3>3 DEF Begin
    <3>4. CASE Finish(b)
      BY <2>1, <2>5, <3>4 DEF Finish
    <3>. QED  BY <1>4, <3>1, <3>2, <3>3, <3>4 DEF ThreadStep, Refuse, GiveUp, StopWaiting, RaiseFails
  <2>. QED  BY <2>4, <2>5
<1>5. ASSUME ~\E a \in Apps : ThreadStep(a) PROVE Goal
  <2>1. Iterate \/ HandleMessage \/ Aside
    BY <1>5, ManagerSteps
  <2>2. UNCHANGED <<holder, latest>> /\ \A a \in Apps : phase'[a] \in Holding => phase[a] \in Holding
    BY <2>1, HandleMessageHandles DEF Iterate, Handles, Aside
  <2>3. \A a \in Apps : raises[a] # <<>> => Current(a)' = Current(a)
    <3>1. CASE UNCHANGED raises
      BY <3>1 DEF Current
    <3>2. ASSUME NEW c \in Batches, NEW f \in BOOLEAN, active # None, Send(c, f),
                 NEW a \in Apps, raises[a] # <<>>
          PROVE  Current(a)' = Current(a)
      <4>1. 1 \in DOMAIN raises[a] /\ Head(raises[a]) = raises[a][1]
        BY <3>2, CurrentType DEF Current
      <4>2. 1 \in DOMAIN raises'[a] /\ raises'[a][1] = raises[a][1]
        BY <3>2, <4>1, SendAppends
      <4>3. Head(raises'[a]) = raises'[a][1]
        OBVIOUS
      <4>. QED  BY <4>1, <4>2, <4>3 DEF Current
    <3>3. CASE Aside \/ HandleMessage
      BY <3>1, <3>3, HandleMessageHandles DEF Aside, Handles
    <3>4. CASE Iterate
      <4>1. CASE SendNext
        <5>1. active # None /\ Head(active.unsent) \in Batches
          BY <4>1, TailOfGroups DEF SendNext, TypeOK, Opt, ActiveSequences
        <5>. QED  BY <3>1, <3>2, <4>1, <5>1 DEF SendNext
      <4>2. CASE SendFocus
        <5>1. active # None /\ active.focusBatch \in Batches
          BY <4>2 DEF SendFocus, RaisesDone, TypeOK, Opt, ActiveSequences
        <5>. QED  BY <3>1, <3>2, <4>2, <5>1 DEF SendFocus
      <4>3. ASSUME NEW r, StartNewSequence(r) PROVE UNCHANGED raises
        BY <4>3 DEF StartNewSequence
      <4>. QED  BY <3>1, <3>4, <4>1, <4>2, <4>3 DEF Iterate, EndSequence
    <3>. QED  BY <2>1, <3>3, <3>4
  <2>. QED  BY <1>2, <1>3, <2>2, <2>3
<1>. QED  BY <1>4, <1>5

-----------------------------------------------------------------------------
(* Theorems *)

LEMMA InitInvariant == Init => IInv
<1>1. Init => Done = {}
  BY DEF Init, Done, CompletedIn, Range
<1>. QED  BY <1>1, InitType DEF Init, IInv, NumbersAreUsed, WindowsAreRaisedOnce, TokensAreFresh,
                WaitsForItsRaises, TagsAreNewest, HolderRaises, FocusIsLast, HolderIsInOrder

LEMMA StepInvariant == IInv /\ [Next]_vars => IInv'
BY StepType, NumbersStep, WindowsStep, TokensStep, TagsStep, FocusStep, HolderStep DEF IInv

THEOREM Invariance == Spec => []IInv
BY InitInvariant, StepInvariant, PTL DEF Spec

\* Only raises of the active sequence, with its current token, are carried out, and that
\* token is not cancelled: nothing of a superseded or timed out sequence is left.
THEOREM OneSequence == Spec => []OneSequenceAtATime
<1>1. IInv => OneSequenceAtATime
  <2>1. IInv /\ active # None => active.token[2] \in Nat
    BY DEF IInv, TypeOK, Opt, ActiveSequences, Tokens
  <2>. QED  BY <2>1 DEF IInv, OneSequenceAtATime, TokensAreFresh, NumbersAreUsed, Live
<1>. QED  BY <1>1, Invariance, PTL

\* The manager waits for every window that will still be raised.
THEOREM Waits == Spec => []WaitsForItsRaises
<1>1. IInv => WaitsForItsRaises
  BY DEF IInv
<1>. QED  BY <1>1, Invariance, PTL

\* Windows are raised in the order of their requests, and the focus window comes last.
THEOREM InOrder == Spec => RaisesInOrder
<1>1. ASSUME IInv, [Next]_vars, latest' # latest
      PROVE  latest.id < latest'.id \/ (latest.id = latest'.id /\ latest'.isFocus)
  <2>1. PICK a \in Apps : RaiseNext(a)
    BY <1>1 DEF Next, Iterate, HandleMessage, TimerFires, HandleLayoutResponse, SwitchEnds, RaiseOne,
         Relay, ThreadStep, Refuse, Begin, Lock, GiveUp, StopWaiting, RaiseFails, ActivationArrives,
         Activated, Terminates, vars, apps
  <2>2. raises[a] # <<>> /\ phase[a] = "raising"
    BY <1>1, <2>1 DEF RaiseNext, IInv, TypeOK
  <2>3. Current(a) \in Raises /\ latest \in [id : Nat, isFocus : BOOLEAN]
    BY <1>1, <2>2, CurrentType DEF IInv, TypeOK
  <2>4. latest' = [id |-> Current(a).token[1], isFocus |-> Current(a).isFocus]
    BY <2>1 DEF RaiseNext
  <2>5. /\ Current(a).token[1] \in Nat /\ Current(a).isFocus \in BOOLEAN
        /\ latest.id \in Nat /\ latest.isFocus \in BOOLEAN
        /\ latest = [id |-> latest.id, isFocus |-> latest.isFocus]
    BY <2>3 DEF Raises, Tokens
  <2>6. /\ latest.id <= Current(a).token[1]
        /\ latest.id = Current(a).token[1] /\ latest.isFocus => Current(a).isFocus
    BY <1>1, <2>2 DEF IInv, HolderIsInOrder
  <2>7. latest'.id = Current(a).token[1] /\ latest'.isFocus = Current(a).isFocus
    BY <2>4
  <2>8. latest.id = latest'.id => latest.isFocus # latest'.isFocus
    BY <1>1, <2>4, <2>5, <2>7
  <2>. QED  BY <2>5, <2>6, <2>7, <2>8
<1>. QED  BY <1>1, Invariance, PTL DEF Spec, RaisesInOrder

\* No application begins to raise windows for a switch that the manager knows is stale.
THEOREM StaleSwitches == Spec => StaleSwitchesRaiseNothing
<1>1. ASSUME IInv, [Next]_vars, NEW a \in Apps, holder # a, holder' = a
      PROVE  Current(a).tag \in {0, newest}
  <2>1. Lock(a)
    BY <1>1, RaiseAssumption DEF RaiseAssumption, Next, Iterate, HandleMessage, TimerFires, HandleLayoutResponse,
         SwitchEnds, RaiseOne, Relay, ThreadStep, Refuse, Begin, Lock, GiveUp, StopWaiting, RaiseNext, RaiseFails,
         Finish, ActivationArrives, Activated, Terminates, vars, apps
  <2>2. raises[a] # <<>> /\ Live(Current(a).token)
    BY <1>1, <2>1 DEF Lock, IInv, TypeOK
  <2>3. 1 \in DOMAIN raises[a] /\ Current(a) = raises[a][1]
    BY <1>1, <2>2, CurrentType DEF IInv
  <2>. QED  BY <1>1, <2>2, <2>3 DEF IInv, TokensAreFresh, TagsAreNewest
<1>2. IInv /\ [Next]_vars =>
        [\A a \in Apps : holder # a /\ holder' = a => Current(a).tag \in {0, newest}]_vars
  BY <1>1
<1>. QED  BY <1>2, Invariance, PTL DEF Spec, StaleSwitchesRaiseNothing
=============================================================================
