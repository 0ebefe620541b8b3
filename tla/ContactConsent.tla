--------------------------- MODULE ContactConsent ---------------------------
(***************************************************************************)
(* "Do not contact me": the two rails of one contact, the Suppression row  *)
(* of a channel and the channel's flag in the Contact.optOut JSON, with    *)
(* everybody who writes them (STOP texts, unsubscribe replies, provider    *)
(* events, bulk unsubscribes, rules, people), the daily hygiene sweep, and *)
(* the sends that must respect them.                                       *)
(***************************************************************************)
EXTENDS Integers, FiniteSets

CONSTANTS
    Handlers,       \* demands to be left alone, each made once
    Sends,
    Via,            \* the channel of each send
    Scenarios,      \* what the handlers handle and how the addresses are stored
    MaxFaults,      \* bound: processes that die, calls that fail
    MaxEdits        \* bound: edits of the suppression list by people

Channels == {"email", "sms"}
(* The provider's events are the unsubscribe and the spam report: a bounce    *)
(* also suppresses, but nobody asked for it and nothing announces it.         *)
Kinds == {"stop", "unsub", "event", "bulk", "rule"}
(* How the contact's address is stored: as its provider writes it; a phone    *)
(* without its plus, or with punctuation; an email in mixed case.             *)
Forms == {"exact", "bare", "pretty", "mixed"}

ASSUME ScenarioAssumption ==
    /\ Via \in [Sends -> Channels]
    /\ Scenarios \subseteq [kind: [Handlers -> Kinds], form: Forms]
ASSUME BoundAssumption == MaxFaults \in Nat /\ MaxEdits \in Nat

VARIABLES
    form,           \* how the contact's addresses are stored
    kind,           \* what each handler handles
    rows,           \* Suppression rows, by the address they name
    flags,          \* channels set in Contact.optOut
    handler,        \* [pc, seen, missing, say]: flags and rows its transaction read,
                    \* channels it has yet to announce
    sweep,          \* runSuppressionHygiene: [pc, todo, chan, seen]
    send,           \* [pc, seen, late]; late is history: opted out when it began
    faults, edits,
    asked,          \* history: channels the contact may not be reached on
    announced,      \* history: channels lead.unsubscribed went out for
    manual,         \* history: channels suppressed by people
    dropped,        \* history: handlers whose demand, or its event, was lost
    crossed         \* history: channels a write of an old optOut took the flag from

vars == <<form, kind, rows, flags, handler, sweep, send, faults, edits,
          asked, announced, manual, dropped, crossed>>

-----------------------------------------------------------------------------
(* Addresses.  The provider's number is "from"; "own" is the contact's number *)
(* without punctuation, "raw" with it.                                        *)
Keys == {"email", "from", "own", "raw"}
ChannelOf(key) == IF key = "email" THEN "email" ELSE "sms"
Exact == form \in {"exact", "mixed"}

\* Contact.phone: what a rule writes to a row and the sweep compares a row with.
Stored == IF Exact THEN "from" ELSE IF form = "bare" THEN "own" ELSE "raw"
\* normalizePhone(contact.phone): what the boundary looks a row up by.
Dialled == IF Exact THEN "from" ELSE "own"

LookupKey(ch) == IF ch = "email" THEN "email" ELSE Dialled
SweepKey(ch) == IF ch = "email" THEN "email" ELSE Stored

ChannelsOf(h) ==
    IF kind[h] = "stop" THEN {"sms"} ELSE IF kind[h] = "rule" THEN Channels ELSE {"email"}
RowKey(h, ch) ==
    IF ch = "email" THEN "email" ELSE IF kind[h] = "stop" THEN "from" ELSE Stored
RowKeys(h) == {RowKey(h, ch) : ch \in ChannelsOf(h)}

Fresh == [pc |-> "idle", seen |-> {}, missing |-> {}, say |-> {}]
Asleep == [pc |-> "idle", todo |-> {}, chan |-> "email", seen |-> {}]
Unsent == [pc |-> "idle", seen |-> {}, late |-> FALSE]

HandlerRecord == [pc: {"idle", "read", "commit", "publish", "done"},
                  seen: SUBSET Channels, missing: SUBSET Keys, say: SUBSET Channels]
SweepRecord == [pc: {"idle", "pick", "write"}, todo: SUBSET Channels,
                chan: Channels, seen: SUBSET Channels]
SendRecord == [pc: {"idle", "check", "transport", "done"}, seen: SUBSET Channels, late: BOOLEAN]

TypeOK ==
    /\ form \in Forms /\ kind \in [Handlers -> Kinds]
    /\ rows \subseteq Keys /\ flags \subseteq Channels
    /\ handler \in [Handlers -> HandlerRecord]
    /\ sweep \in SweepRecord
    /\ send \in [Sends -> SendRecord]
    /\ faults \in 0..MaxFaults /\ edits \in 0..MaxEdits
    /\ asked \subseteq Channels /\ announced \subseteq Channels
    /\ manual \subseteq Channels /\ dropped \subseteq Handlers
    /\ crossed \subseteq Channels

Init ==
    /\ \E sc \in Scenarios : form = sc.form /\ kind = sc.kind
    /\ rows = {} /\ flags = {}
    /\ handler = [h \in Handlers |-> Fresh]
    /\ sweep = Asleep
    /\ send = [s \in Sends |-> Unsent]
    /\ faults = 0 /\ edits = 0
    /\ asked = {} /\ announced = {} /\ manual = {} /\ dropped = {}
    /\ crossed = {}

-----------------------------------------------------------------------------
(* A handler is one transaction at READ COMMITTED and an event behind it.     *)
(* What it writes is visible when it commits, what it read may be old by then.*)
At(h, pc) == handler[h].pc = pc

\* A number stored with punctuation does not contain the digits a STOP comes
\* from: neither its thread nor the fallback of DEC-064 finds the contact.
Unmatched(h) == kind[h] = "stop" /\ form = "pretty"

Receive(h) ==
    /\ At(h, "idle")
    /\ IF Unmatched(h)
         THEN /\ handler' = [handler EXCEPT ![h].pc = "done"]
              /\ dropped' = dropped \union {h}
         ELSE /\ handler' = [handler EXCEPT ![h].pc = "read"]
              /\ UNCHANGED dropped
    /\ UNCHANGED <<form, kind, rows, flags, sweep, send, faults, edits,
                   asked, announced, manual, crossed>>

Read(h) ==
    /\ At(h, "read")
    /\ handler' = [handler EXCEPT ![h] =
           [Fresh EXCEPT !.pc = "commit", !.seen = flags, !.missing = RowKeys(h) \ rows]]
    /\ UNCHANGED <<form, kind, rows, flags, sweep, send, faults, edits,
                   asked, announced, manual, dropped, crossed>>

\* Find-or-create meets a row that came after its find: the unique key throws.
Conflict(h) == kind[h] \in {"stop", "unsub", "rule"} /\ handler[h].missing \intersect rows # {}

\* An event finds its contact by the address as the provider wrote it.
Flagged(h) == IF kind[h] = "event" /\ form = "mixed" THEN {} ELSE ChannelsOf(h)

\* A row it found that people have removed since: nobody creates it again.
Lifted(h) ==
    IF kind[h] \in {"stop", "unsub", "rule"} THEN RowKeys(h) \ (handler[h].missing \union rows) ELSE {}

\* Mutant: a rule tells of nothing when one of its rows was there.
ToSayIfNew(h) == IF kind[h] = "rule" /\ RowKeys(h) \intersect rows # {} THEN {} ELSE ChannelsOf(h)
\* Mutant: a rule tells of addresses.
ToSayAddresses(h) == IF kind[h] = "rule" THEN RowKeys(h) \ rows ELSE ChannelsOf(h)
\* A rule tells of the rows it creates; everybody else of what was asked.
ToSay(h) == IF kind[h] = "rule" THEN {ch \in Channels : RowKey(h, ch) \notin rows} ELSE ChannelsOf(h)

\* A stop finds its row before it reads the contact: an old find means an old
\* row, and a row that was there.  The others may have read the contact first
\* and look for the row later.
Finds(h, found) ==
    /\ found \subseteq Lifted(h)
    /\ kind[h] = "stop" => found = Lifted(h) /\ ~Conflict(h)
LiftedOn(h, found) == {ch \in ChannelsOf(h) : RowKey(h, ch) \in found}

\* People who remove the row a demand found have lifted the demand; only its
\* flag is still written.
WriteFlags(new) == flags' = new /\ crossed' = crossed \union (flags \ new)
Commit(h) ==
    /\ At(h, "commit")
    /\ \E found \in SUBSET Lifted(h) :
          /\ Finds(h, found)
          /\ rows' = rows \union (RowKeys(h) \ found)
          /\ asked' = asked \union (ChannelsOf(h) \ LiftedOn(h, found))
          /\ IF kind[h] = "bulk"      \* its Event rows are in the same transaction
               THEN /\ announced' = announced \union ChannelsOf(h)
                    /\ handler' = [handler EXCEPT ![h] = [Fresh EXCEPT !.pc = "done"]]
               ELSE /\ handler' = [handler EXCEPT ![h] = [Fresh EXCEPT !.pc = "publish",
                          !.say = IF kind[h] = "rule" THEN ToSay(h) \ LiftedOn(h, found)
                                                      ELSE ToSay(h)]]
                    /\ UNCHANGED announced
    /\ WriteFlags(IF Flagged(h) = {} THEN flags ELSE handler[h].seen \union Flagged(h))
    /\ UNCHANGED <<form, kind, sweep, send, faults, edits, manual, dropped>>

Publish(h) ==
    /\ At(h, "publish")
    /\ announced' = announced \union handler[h].say
    /\ handler' = [handler EXCEPT ![h] = [Fresh EXCEPT !.pc = "done"]]
    /\ UNCHANGED <<form, kind, rows, flags, sweep, send, faults, edits,
                   asked, manual, dropped, crossed>>

\* The classify job and the provider's event come again, a rule's event too as
\* long as the rule has not stopped the lead; a text or a click does not.
Repeated(h) == kind[h] \in {"unsub", "event"} \/ (kind[h] = "rule" /\ ~At(h, "publish"))
Fail(h, again) ==
    /\ handler' = [handler EXCEPT ![h] =
           [Fresh EXCEPT !.pc = IF again THEN "read" ELSE "done"]]
    /\ dropped' = IF again THEN dropped ELSE dropped \union {h}

\* The transaction is rolled back.  A rule's failure is recorded, not retried.
RolledBack(h) ==
    /\ At(h, "commit") /\ Conflict(h)
    /\ Fail(h, kind[h] = "unsub")
    /\ UNCHANGED <<form, kind, rows, flags, sweep, send, faults, edits,
                   asked, announced, manual, crossed>>

Dies(h) ==
    /\ handler[h].pc \in {"read", "commit", "publish"} /\ faults < MaxFaults
    /\ faults' = faults + 1
    /\ Fail(h, Repeated(h))
    /\ UNCHANGED <<form, kind, rows, flags, sweep, send, edits,
                   asked, announced, manual, crossed>>

-----------------------------------------------------------------------------
(* The hygiene sweep: a list of rows, then contact by contact, each read and  *)
(* write on its own.                                                          *)
SweepStart ==
    /\ sweep.pc = "idle"
    /\ \E ch \in Channels : SweepKey(ch) \in rows
    /\ sweep' = [Asleep EXCEPT !.pc = "pick", !.todo = {ch \in Channels : SweepKey(ch) \in rows}]
    /\ UNCHANGED <<form, kind, rows, flags, handler, send, faults, edits,
                   asked, announced, manual, dropped, crossed>>

SweepRead(ch) ==
    /\ sweep.pc = "pick" /\ ch \in sweep.todo
    /\ sweep' = IF ch \in flags
                  THEN [sweep EXCEPT !.todo = @ \ {ch}]
                  ELSE [sweep EXCEPT !.pc = "write", !.chan = ch, !.seen = flags]
    /\ UNCHANGED <<form, kind, rows, flags, handler, send, faults, edits,
                   asked, announced, manual, dropped, crossed>>

\* Mutant: the flag is written, the others are not.
RepairedAlone == {sweep.chan}
Repaired == sweep.seen \union {sweep.chan}

SweepWrite ==
    /\ sweep.pc = "write"
    /\ WriteFlags(Repaired)
    /\ sweep' = [Asleep EXCEPT !.pc = "pick", !.todo = sweep.todo \ {sweep.chan}]
    /\ UNCHANGED <<form, kind, rows, handler, send, faults, edits,
                   asked, announced, manual, dropped>>

SweepEnd ==
    /\ sweep.pc = "pick" /\ sweep.todo = {}
    /\ sweep' = Asleep
    /\ UNCHANGED <<form, kind, rows, flags, handler, send, faults, edits,
                   asked, announced, manual, dropped, crossed>>

-----------------------------------------------------------------------------
(* People edit the list: an email can be added, any row removed.  Neither     *)
(* touches the flag.                                                          *)
AddRow ==
    /\ edits < MaxEdits
    /\ rows' = rows \union {"email"}
    /\ asked' = asked \union {"email"} /\ manual' = manual \union {"email"}
    /\ edits' = edits + 1
    /\ UNCHANGED <<form, kind, flags, handler, sweep, send, faults,
                   announced, dropped, crossed>>

RemoveRow(key) ==
    /\ key \in rows /\ edits < MaxEdits
    /\ rows' = rows \ {key}
    /\ LET ch == ChannelOf(key) IN
       /\ asked' = asked \ {ch} /\ manual' = manual \ {ch} /\ announced' = announced \ {ch}
       /\ send' = [s \in Sends |-> [send[s] EXCEPT !.late = @ /\ Via[s] # ch]]
    /\ edits' = edits + 1
    /\ UNCHANGED <<form, kind, flags, handler, sweep, faults, dropped, crossed>>

-----------------------------------------------------------------------------
(* sendStep and sendSmsStep, scheduled or a human's reply: the contact is     *)
(* read early, the row looked up later, then the transport.                   *)
SendAt(s, pc) == send[s].pc = pc
SendEnds(s) == send' = [send EXCEPT ![s] = [Unsent EXCEPT !.pc = "done"]]
railVars == <<form, kind, rows, flags, handler, sweep, faults, edits,
              asked, announced, manual, dropped, crossed>>

Begin(s) ==
    /\ SendAt(s, "idle")
    /\ send' = [send EXCEPT ![s] = [pc |-> "check", seen |-> flags, late |-> Via[s] \in asked]]
    /\ UNCHANGED railVars

\* Mutant: the flag alone.
RefusedByFlag(s) == Via[s] \in send[s].seen
\* What the boundary refuses: the flag it read at the start, the row as it is now.
Refused(s) == Via[s] \in send[s].seen \/ LookupKey(Via[s]) \in rows

CheckRails(s) ==
    /\ SendAt(s, "check")
    /\ IF Refused(s) THEN SendEnds(s)
       ELSE send' = [send EXCEPT ![s].pc = "transport", ![s].seen = {}]
    /\ UNCHANGED railVars

Transport(s) ==
    /\ SendAt(s, "transport")
    /\ SendEnds(s)
    /\ UNCHANGED railVars

-----------------------------------------------------------------------------
Handle(h) == Read(h) \/ Commit(h) \/ RolledBack(h) \/ Publish(h)
SweepStep == SweepStart \/ (\E ch \in Channels : SweepRead(ch)) \/ SweepWrite \/ SweepEnd
SendStep(s) == Begin(s) \/ CheckRails(s) \/ Transport(s)

Next ==
    \/ \E h \in Handlers : Receive(h) \/ Handle(h) \/ Dies(h)
    \/ SweepStep
    \/ AddRow \/ (\E key \in Keys : RemoveRow(key))
    \/ \E s \in Sends : SendStep(s)

(* A demand that was received is worked off; the sweep's timer fires.  Nobody *)
(* has to ask, send or edit.                                                  *)
Fairness ==
    /\ \A h \in Handlers : WF_vars(Handle(h))
    /\ WF_vars(SweepStep)

Spec == Init /\ [][Next]_vars /\ Fairness

-----------------------------------------------------------------------------
(* Properties *)

(* "Double rail" (sms-inbound.ts): a send that began after the contact had    *)
(* opted out never reaches the transport, although the flag is a JSON value   *)
(* every writer overwrites whole.  Only where the phone is not stored as its  *)
(* provider writes it may the row be one the boundary does not look up, and a *)
(* text leave once a write of an old optOut has lost the flag as well.        *)
NoSendAfterOptOut ==
    [][\A s \in Sends : SendAt(s, "transport") /\ send'[s].pc = "done" /\ send[s].late
          => ~Exact /\ Via[s] = "sms" /\ "sms" \in crossed]_vars

(* "The two rails must agree" (suppression-hygiene.ts): once nobody writes    *)
(* any more, an address that is suppressed has its flag for good, for every   *)
(* row the contact's stored address names.                                    *)
RailsAgree ==
    <>[](/\ "email" \in rows => "email" \in flags
         /\ Stored \in rows => "sms" \in flags)

(* A demand that was received is announced (lead.unsubscribed.v1), by its own *)
(* handler or by the one that created the row it found, unless people made    *)
(* that row or a handler of the channel was lost half way.                    *)
DemandsLand ==
    \A h \in Handlers : \A ch \in Channels :
        At(h, "read") /\ ch \in ChannelsOf(h)
            ~> (ch \in announced \union manual \/ \E g \in dropped : ch \in ChannelsOf(g))
=============================================================================
