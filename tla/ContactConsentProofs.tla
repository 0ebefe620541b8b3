------------------------ MODULE ContactConsentProofs ------------------------
(* What holds of the two rails for any handlers, sends, scenarios and bounds. *)
EXTENDS ContactConsent, TLAPS

-----------------------------------------------------------------------------
(* Type correctness is inductive as it stands.                                *)

\* The records an actor may be left with.
LEMMA Records ==
    /\ Fresh \in HandlerRecord /\ Asleep \in SweepRecord /\ Unsent \in SendRecord
    /\ [Fresh EXCEPT !.pc = "done"] \in HandlerRecord
    /\ [Fresh EXCEPT !.pc = "read"] \in HandlerRecord
    /\ [Unsent EXCEPT !.pc = "done"] \in SendRecord
    /\ \A r \in HandlerRecord : [r EXCEPT !.pc = "done"] \in HandlerRecord
                             /\ [r EXCEPT !.pc = "read"] \in HandlerRecord
    /\ \A S \in SUBSET Channels : \A M \in SUBSET Keys :
          /\ [Fresh EXCEPT !.pc = "commit", !.seen = S, !.missing = M] \in HandlerRecord
          /\ [Asleep EXCEPT !.pc = "pick", !.todo = S] \in SweepRecord
BY DEF Fresh, Asleep, Unsent, HandlerRecord, SweepRecord, SendRecord, Channels, Keys

\* Who writes what: channels and addresses of a handler.
LEMMA HandlerAddresses ==
    ASSUME NEW h \in Handlers
    PROVE  /\ ChannelsOf(h) \subseteq Channels /\ RowKeys(h) \subseteq Keys
           /\ Flagged(h) \subseteq Channels /\ ToSay(h) \subseteq Channels
<1>1. ChannelsOf(h) \subseteq Channels
  BY DEF ChannelsOf, Channels
<1>2. RowKeys(h) \subseteq Keys
  BY <1>1 DEF RowKeys, RowKey, Stored, Keys
<1> QED BY <1>1, <1>2 DEF Flagged, ToSay

LEMMA TypeInit == Init => TypeOK
<1> SUFFICES ASSUME Init PROVE TypeOK
  OBVIOUS
<1>1. form \in Forms /\ kind \in [Handlers -> Kinds]
  BY ScenarioAssumption DEF Init
<1>2. /\ handler \in [Handlers -> HandlerRecord] /\ sweep \in SweepRecord
      /\ send \in [Sends -> SendRecord]
  BY Records DEF Init
<1>3. faults \in 0..MaxFaults /\ edits \in 0..MaxEdits
  BY BoundAssumption DEF Init
<1> QED BY <1>1, <1>2, <1>3 DEF Init, TypeOK

LEMMA HandlerTyped ==
    ASSUME TypeOK, NEW h \in Handlers, Receive(h) \/ Handle(h) \/ Dies(h)
    PROVE  TypeOK'
<1> USE DEF TypeOK
<1>0. handler[h] \in HandlerRecord /\ handler[h].seen \subseteq Channels /\ handler[h].say \subseteq Channels
  BY DEF HandlerRecord
<1>1. CASE Receive(h)
  <2>1. handler' \in [Handlers -> HandlerRecord]
    BY <1>0, <1>1, Records DEF Receive
  <2> QED BY <1>1, <2>1 DEF Receive
<1>2. CASE Read(h)
  <2>1. handler' \in [Handlers -> HandlerRecord]
    BY <1>0, <1>2, Records, HandlerAddresses DEF Read
  <2> QED BY <1>2, <2>1 DEF Read
<1>3. CASE Commit(h)
  <2>0. \A S \in SUBSET Channels : [Fresh EXCEPT !.pc = "publish", !.say = S] \in HandlerRecord
    BY DEF Fresh, HandlerRecord
  <2>1. handler' \in [Handlers -> HandlerRecord]
    <3>1. \A L : ToSay(h) \in SUBSET Channels /\ ToSay(h) \ L \in SUBSET Channels
      BY HandlerAddresses
    <3>2. CASE kind[h] = "bulk"
      BY <1>3, <3>2, Records DEF Commit
    <3>3. CASE kind[h] # "bulk"
      <4>1. PICK found : handler' = [handler EXCEPT ![h] = [Fresh EXCEPT !.pc = "publish",
                !.say = IF kind[h] = "rule" THEN ToSay(h) \ LiftedOn(h, found) ELSE ToSay(h)]]
        BY <1>3, <3>3 DEF Commit
      <4> DEFINE S == IF kind[h] = "rule" THEN ToSay(h) \ LiftedOn(h, found) ELSE ToSay(h)
      <4>2. S \in SUBSET Channels
        BY <3>1
      <4>3. [Fresh EXCEPT !.pc = "publish", !.say = S] \in HandlerRecord
        BY <2>0, <4>2
      <4> QED BY <4>1, <4>3
    <3> QED BY <3>2, <3>3
  <2>2. rows' \subseteq Keys /\ asked' \subseteq Channels /\ announced' \subseteq Channels
    BY <1>3, HandlerAddresses DEF Commit
  <2>3. flags' \subseteq Channels /\ crossed' \subseteq Channels
    BY <1>0, <1>3, HandlerAddresses DEF Commit, WriteFlags
  <2> QED BY <1>3, <2>1, <2>2, <2>3 DEF Commit
<1>4. CASE Publish(h)
  <2>1. handler' \in [Handlers -> HandlerRecord]
    BY <1>0, <1>4, Records DEF Publish
  <2> QED BY <1>0, <1>4, <2>1 DEF Publish
<1>5. CASE RolledBack(h)
  <2>1. handler' \in [Handlers -> HandlerRecord] /\ dropped' \subseteq Handlers
    BY <1>0, <1>5, Records DEF RolledBack, Fail
  <2> QED BY <1>5, <2>1 DEF RolledBack
<1>6. CASE Dies(h)
  <2>1. handler' \in [Handlers -> HandlerRecord] /\ dropped' \subseteq Handlers
    BY <1>0, <1>6, Records DEF Dies, Fail
  <2>2. faults' \in 0..MaxFaults
    BY <1>6, BoundAssumption DEF Dies
  <2> QED BY <1>6, <2>1, <2>2 DEF Dies
<1> QED BY <1>1, <1>2, <1>3, <1>4, <1>5, <1>6 DEF Handle

LEMMA SweepTyped == ASSUME TypeOK, SweepStep PROVE TypeOK'
<1> USE DEF TypeOK
<1>0. /\ sweep.todo \subseteq Channels /\ sweep.chan \in Channels /\ sweep.seen \subseteq Channels
      /\ sweep.pc \in {"idle", "pick", "write"}
  BY DEF SweepRecord
<1>1. CASE SweepStart
  BY <1>1, Records DEF SweepStart
<1>2. ASSUME NEW ch \in Channels, SweepRead(ch) PROVE TypeOK'
  BY <1>2 DEF SweepRead, SweepRecord
<1>3. CASE SweepWrite
  <2>1. flags' \subseteq Channels /\ crossed' \subseteq Channels
    BY <1>0, <1>3 DEF SweepWrite, WriteFlags, Repaired
  <2>2. sweep' \in SweepRecord
    BY <1>0, <1>3, Records DEF SweepWrite
  <2> QED BY <1>3, <2>1, <2>2 DEF SweepWrite
<1>4. CASE SweepEnd
  BY <1>4, Records DEF SweepEnd
<1> QED BY <1>1, <1>2, <1>3, <1>4 DEF SweepStep

LEMMA PeopleTyped ==
    ASSUME TypeOK, AddRow \/ (\E key \in Keys : RemoveRow(key)) PROVE TypeOK'
<1> USE DEF TypeOK
<1>1. CASE AddRow
  BY <1>1, BoundAssumption DEF AddRow, Channels, Keys
<1>2. ASSUME NEW key \in Keys, RemoveRow(key) PROVE TypeOK'
  <2>1. ASSUME NEW s \in Sends, NEW b \in BOOLEAN
        PROVE  [send[s] EXCEPT !.late = b] \in SendRecord
    BY DEF SendRecord
  <2>2. \A s \in Sends : (send[s].late /\ Via[s] # ChannelOf(key)) \in BOOLEAN
    BY DEF SendRecord
  <2>3. send' \in [Sends -> SendRecord]
    BY <1>2, <2>1, <2>2, Zenon DEF RemoveRow
  <2> QED BY <1>2, <2>3, BoundAssumption DEF RemoveRow
<1> QED BY <1>1, <1>2

LEMMA SendTyped == ASSUME TypeOK, NEW s \in Sends, SendStep(s) PROVE TypeOK'
<1> USE DEF TypeOK, railVars
<1>0. send[s] \in SendRecord
  OBVIOUS
<1>1. CASE Begin(s)
  BY <1>0, <1>1 DEF Begin, SendRecord
<1>2. CASE CheckRails(s)
  <2>1. [send[s] EXCEPT !.pc = "transport", !.seen = {}] \in SendRecord
    BY <1>0 DEF SendRecord
  <2>2. CASE Refused(s)
    BY <1>2, <2>2, Records DEF CheckRails, SendEnds
  <2>3. CASE ~Refused(s)
    BY <1>2, <2>1, <2>3 DEF CheckRails
  <2> QED BY <2>2, <2>3
<1>3. CASE Transport(s)
  <2>1. send' \in [Sends -> SendRecord]
    BY <1>0, <1>3, Records DEF Transport, SendEnds
  <2> QED BY <1>3, <2>1 DEF Transport
<1> QED BY <1>1, <1>2, <1>3 DEF SendStep

\* Every state is well typed.
THEOREM Typing == Spec => []TypeOK
<1>1. ASSUME TypeOK, [Next]_vars PROVE TypeOK'
  <2>1. CASE UNCHANGED vars
    BY <1>1, <2>1 DEF vars, TypeOK
  <2> QED BY <1>1, <2>1, HandlerTyped, SweepTyped, PeopleTyped, SendTyped DEF Next
<1> QED BY TypeInit, <1>1, PTL DEF Spec

-----------------------------------------------------------------------------
(* The rails.  A channel the contact opted out of keeps the row the boundary  *)
(* looks up, unless it is the sms of a phone stored in another form: then it  *)
(* keeps its flag until a write of an old optOut takes it.  A send that began *)
(* under an opt-out has read the flag, or is still to meet the row.           *)

Tricky(ch) == ~Exact /\ ch = "sms"
RowKept == \A ch \in asked : ~Tricky(ch) => LookupKey(ch) \in rows
FlagKept == \A ch \in asked : Tricky(ch) => ch \in flags \union crossed
SendsKnow ==
    \A s \in Sends : send[s].late =>
        /\ Via[s] \in asked
        /\ send[s].pc = "check" => (Tricky(Via[s]) => Via[s] \in send[s].seen \union crossed)
        /\ send[s].pc = "transport" => Tricky(Via[s]) /\ Via[s] \in crossed

Rails == TypeOK /\ RowKept /\ FlagKept /\ SendsKnow

LEMMA RailsInit == Init => Rails
<1> SUFFICES ASSUME Init PROVE Rails
  OBVIOUS
<1>1. TypeOK
  BY TypeInit
<1>2. \A s \in Sends : ~send[s].late
  BY DEF Init, Unsent
<1> QED BY <1>1, <1>2 DEF Init, Rails, RowKept, FlagKept, SendsKnow

\* The row a handler writes is the one the boundary looks up, or the phone is
\* stored in another form.
LEMMA RowIsMet ==
    ASSUME NEW h \in Handlers, NEW ch \in ChannelsOf(h), ~Tricky(ch)
    PROVE  LookupKey(ch) = RowKey(h, ch) /\ LookupKey(ch) \in RowKeys(h)
<1>1. RowKey(h, ch) = LookupKey(ch)
  BY HandlerAddresses DEF RowKey, LookupKey, Dialled, Stored, Tricky, Channels
<1> QED BY <1>1 DEF RowKeys

\* A step that takes no row and no flag without a trace, adds to asked only what
\* it wrote on both rails, and touches no send, keeps the rails.
LEMMA RailsKeep ==
    ASSUME Rails, TypeOK', UNCHANGED <<form, send>>,
           rows \subseteq rows', flags \union crossed \subseteq flags' \union crossed',
           crossed \subseteq crossed', asked \subseteq asked',
           \A ch \in asked' \ asked :
              /\ ~Tricky(ch) => LookupKey(ch) \in rows'
              /\ Tricky(ch) => ch \in flags'
    PROVE  Rails'
<1>1. \A ch : Tricky(ch)' = Tricky(ch) /\ LookupKey(ch)' = LookupKey(ch)
  BY DEF Tricky, Exact, LookupKey, Dialled
<1>2. RowKept'
  BY <1>1 DEF Rails, RowKept
<1>3. FlagKept'
  BY <1>1 DEF Rails, FlagKept
<1>4. SendsKnow'
  BY <1>1 DEF Rails, SendsKnow
<1> QED BY <1>2, <1>3, <1>4 DEF Rails

LEMMA HandlerRails ==
    ASSUME Rails, TypeOK', NEW h \in Handlers, Receive(h) \/ Handle(h) \/ Dies(h)
    PROVE  Rails'
<1>1. CASE Commit(h)
  <2>0. PICK found \in SUBSET Lifted(h) :
          /\ rows' = rows \union (RowKeys(h) \ found)
          /\ asked' = asked \union (ChannelsOf(h) \ LiftedOn(h, found))
    BY <1>1 DEF Commit
  <2>1. UNCHANGED <<form, send>>
    BY <1>1 DEF Commit
  <2>2. flags \union crossed \subseteq flags' \union crossed' /\ crossed \subseteq crossed'
    BY <1>1 DEF Commit, WriteFlags
  <2>3. ASSUME NEW ch \in ChannelsOf(h) \ LiftedOn(h, found) PROVE ~Tricky(ch) => LookupKey(ch) \in rows'
    BY <2>0, <2>3, RowIsMet DEF LiftedOn
  <2>4. ASSUME NEW ch \in ChannelsOf(h), Tricky(ch) PROVE ch \in flags'
    <3>1. Flagged(h) = ChannelsOf(h)
      BY <2>4 DEF Tricky, Exact, Flagged
    <3> QED BY <1>1, <2>4, <3>1 DEF Commit, WriteFlags
  <2> QED BY <2>0, <2>1, <2>2, <2>3, <2>4, RailsKeep
<1>2. CASE Receive(h) \/ Read(h) \/ RolledBack(h) \/ Publish(h) \/ Dies(h)
  <2>1. UNCHANGED <<form, send, rows, flags, asked, crossed>>
    BY <1>2 DEF Receive, Read, RolledBack, Publish, Dies
  <2> QED BY <2>1, RailsKeep
<1> QED BY <1>1, <1>2 DEF Handle

LEMMA SweepRails == ASSUME Rails, TypeOK', SweepStep PROVE Rails'
<1>1. UNCHANGED <<form, send, rows, asked>>
  BY DEF SweepStep, SweepStart, SweepRead, SweepWrite, SweepEnd
<1>2. flags \union crossed \subseteq flags' \union crossed' /\ crossed \subseteq crossed'
  BY DEF SweepStep, SweepStart, SweepRead, SweepWrite, SweepEnd, WriteFlags
<1> QED BY <1>1, <1>2, RailsKeep

LEMMA PeopleRails ==
    ASSUME Rails, TypeOK', AddRow \/ (\E key \in Keys : RemoveRow(key)) PROVE Rails'
<1>1. CASE AddRow
  <2>1. /\ UNCHANGED <<form, send, flags, crossed>> /\ rows' = rows \union {"email"}
        /\ asked' = asked \union {"email"}
    BY <1>1 DEF AddRow
  <2>2. ~Tricky("email") /\ LookupKey("email") = "email"
    BY DEF Tricky, LookupKey
  <2> QED BY <2>1, <2>2, RailsKeep
<1>2. ASSUME NEW key \in Keys, RemoveRow(key) PROVE Rails'
  <2>1. /\ UNCHANGED <<form, flags, crossed>> /\ rows' = rows \ {key}
        /\ asked' = asked \ {ChannelOf(key)}
        /\ send' = [s \in Sends |-> [send[s] EXCEPT !.late = @ /\ Via[s] # ChannelOf(key)]]
    BY <1>2 DEF RemoveRow
  <2>2. \A ch : Tricky(ch)' = Tricky(ch) /\ LookupKey(ch)' = LookupKey(ch)
    BY <2>1 DEF Tricky, Exact, LookupKey, Dialled
  <2>3. \A ch \in Channels : LookupKey(ch) = key => ch = ChannelOf(key)
    BY DEF LookupKey, Dialled, ChannelOf, Channels
  <2>4. RowKept'
    BY <2>1, <2>2, <2>3 DEF Rails, TypeOK, RowKept
  <2>5. FlagKept'
    BY <2>1, <2>2 DEF Rails, FlagKept
  <2>6. SendsKnow'
    <3>1. ASSUME NEW s \in Sends, send'[s].late
          PROVE  /\ send[s].late /\ Via[s] # ChannelOf(key)
                 /\ send'[s].pc = send[s].pc /\ send'[s].seen = send[s].seen
      <4>1. send[s] \in SendRecord
        BY DEF Rails, TypeOK
      <4> QED BY <2>1, <3>1, <4>1 DEF SendRecord
    <3> QED BY <2>1, <2>2, <3>1 DEF Rails, SendsKnow
  <2> QED BY <2>4, <2>5, <2>6 DEF Rails
<1> QED BY <1>1, <1>2

LEMMA SendRails ==
    ASSUME Rails, TypeOK', NEW s \in Sends, SendStep(s) PROVE Rails'
<1>1. UNCHANGED <<form, rows, flags, asked, crossed>>
  BY DEF SendStep, Begin, CheckRails, Transport, railVars
<1>2. \A ch : Tricky(ch)' = Tricky(ch) /\ LookupKey(ch)' = LookupKey(ch)
  BY <1>1 DEF Tricky, Exact, LookupKey, Dialled
<1>3. RowKept' /\ FlagKept'
  BY <1>1, <1>2 DEF Rails, RowKept, FlagKept
<1>4. send \in [Sends -> SendRecord] /\ send[s] \in SendRecord
  BY DEF Rails, TypeOK
<1>5. SendsKnow'
  <2>1. CASE Begin(s)
    <3>1. send'[s] = [pc |-> "check", seen |-> flags, late |-> Via[s] \in asked]
      BY <1>4, <2>1 DEF Begin
    <3>2. \A t \in Sends \ {s} : send'[t] = send[t]
      BY <1>4, <2>1 DEF Begin
    <3>3. Via[s] \in asked => (Tricky(Via[s]) => Via[s] \in flags \union crossed)
      BY DEF Rails, FlagKept
    <3>4. ASSUME NEW t \in Sends, send'[t].late
          PROVE  /\ Via[t] \in asked'
                 /\ send'[t].pc = "check" =>
                       (Tricky(Via[t])' => Via[t] \in send'[t].seen \union crossed')
                 /\ send'[t].pc = "transport" => Tricky(Via[t])' /\ Via[t] \in crossed'
      <4>1. CASE t = s
        <5>1. send'[s].pc = "check" /\ send'[s].seen = flags
          BY <3>1
        <5>2. send'[s].late = (Via[s] \in asked)
          <6>1. ASSUME NEW b \in BOOLEAN
                PROVE  [pc |-> "check", seen |-> flags, late |-> b].late = b
            OBVIOUS
          <6>2. (Via[s] \in asked) \in BOOLEAN
            OBVIOUS
          <6> QED BY <3>1, <6>1, <6>2, Zenon
        <5>3. Via[s] \in asked
          BY <3>4, <4>1, <5>2
        <5> QED BY <1>1, <1>2, <3>3, <4>1, <5>1, <5>3
      <4>2. CASE t # s
        BY <1>1, <1>2, <3>2, <3>4, <4>2 DEF Rails, SendsKnow
      <4> QED BY <4>1, <4>2
    <3> QED BY <3>4 DEF SendsKnow
  <2>2. CASE CheckRails(s)
    <3>1. \A t \in Sends \ {s} : send'[t] = send[t]
      BY <1>4, <2>2 DEF CheckRails, SendEnds
    <3>2. CASE Refused(s)
      <4>1. ~send'[s].late
        BY <1>4, <2>2, <3>2 DEF CheckRails, SendEnds, Unsent
      <4> QED BY <1>1, <1>2, <3>1, <4>1 DEF Rails, SendsKnow
    <3>3. CASE ~Refused(s)
      <4>1. send'[s].pc = "transport" /\ send'[s].late = send[s].late /\ send[s].pc = "check"
        BY <1>4, <2>2, <3>3 DEF CheckRails, SendAt, SendRecord
      <4>2. send[s].late => Tricky(Via[s]) /\ Via[s] \in crossed
        BY <3>3, <4>1 DEF Rails, SendsKnow, RowKept, Refused
      <4> QED BY <1>1, <1>2, <3>1, <4>1, <4>2 DEF Rails, SendsKnow
    <3> QED BY <3>2, <3>3
  <2>3. CASE Transport(s)
    <3>1. \A t \in Sends \ {s} : send'[t] = send[t]
      BY <1>4, <2>3 DEF Transport, SendEnds
    <3>2. ~send'[s].late
      BY <1>4, <2>3 DEF Transport, SendEnds, Unsent
    <3> QED BY <1>1, <1>2, <3>1, <3>2 DEF Rails, SendsKnow
  <2> QED BY <2>1, <2>2, <2>3 DEF SendStep
<1> QED BY <1>3, <1>5 DEF Rails

LEMMA RailsStep == Rails /\ [Next]_vars => Rails'
<1> SUFFICES ASSUME Rails, [Next]_vars PROVE Rails'
  OBVIOUS
<1>1. CASE UNCHANGED vars
  BY <1>1 DEF vars, Rails, TypeOK, RowKept, FlagKept, SendsKnow, Tricky, Exact, LookupKey, Dialled
<1>2. CASE Next
  <2>1. TypeOK'
    BY <1>2, HandlerTyped, SweepTyped, PeopleTyped, SendTyped DEF Rails, Next
  <2> QED BY <1>2, <2>1, HandlerRails, SweepRails, PeopleRails, SendRails DEF Next
<1> QED BY <1>1, <1>2

\* A send that began after the contact had opted out is never made, but for a
\* text to a phone stored in another form after its flag was overwritten.
THEOREM OptOutIsFinal == Spec => NoSendAfterOptOut
<1>1. Rails /\ [Next]_vars =>
        [\A s \in Sends : SendAt(s, "transport") /\ send'[s].pc = "done" /\ send[s].late
            => ~Exact /\ Via[s] = "sms" /\ "sms" \in crossed]_vars
  BY DEF Rails, SendsKnow, SendAt, Tricky
<1> QED BY RailsInit, RailsStep, <1>1, PTL DEF Spec, NoSendAfterOptOut
=============================================================================
