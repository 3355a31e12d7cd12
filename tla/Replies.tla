-------------------------------- MODULE Replies --------------------------------
(***************************************************************************)
(* DRAFT_REPLY and SEND_REPLY (api/routes/exceptions.py): an operator      *)
(* composes the reply to a buyer, edits it and sends it.  The send is an   *)
(* effect of the graph, so that the outbox retries what failed.            *)
(*                                                                         *)
(* A handler is one synchronous call on its process's event loop: nothing  *)
(* else of that process runs in its middle, another replica may.  The      *)
(* record is in the database (or in the process); the answers to repeated  *)
(* requests and the ledger of deliveries are the process's own and die     *)
(* with it.                                                                *)
(***************************************************************************)
EXTENDS EffectOutbox, Sequences

CONSTANT NoBuyer   \* the draft has no recipient
\* A deployment also has requests, what operators may ask for, each as often as submits allows;
\* letters, the effects that replies fire.

ASSUME RepliesAssumption ==
  \A d \in Deployments :
    /\ d.letters \subseteq Effects
    /\ \A r \in d.requests : r.action \in {"DRAFT_REPLY", "SEND_REPLY"}

VARIABLES
  record,    \* the record's lifecycle and its resolution_data
  handler,   \* [Replicas -> the request being served, with the record it read]
  answers,   \* [Replicas -> _idempotency_cache]
  ledger,    \* [Replicas -> _delivery_dedup, the keys of what was delivered]
  letter,    \* [Effects -> what a reply's effect sends, and to whom]
  submits,   \* requests so far
  sentBy,    \* history: [Replicas -> replies this life of the process called SENT]
  ranBy,     \* history: [Replicas -> the keys whose request this life carried out]
  told,      \* history: replies an operator was told were sent already
  blind,     \* history: the effects of replies that were sent though their preview was halted
  resent,    \* history: the effects that a life called SENT after another of the same reply
  again      \* history: a key's request was carried out twice by one life

past == <<told, blind, resent, again>>
desk == <<record, handler, answers, ledger, letter, submits, sentBy, ranBy, past>>
allVars == <<vars, desk>>

NoEntry == [status |-> "none", effect |-> NoEffect]
NoRequest == [action |-> "none", user |-> "none", key |-> "none", to |-> NoBuyer, text |-> "none"]
Free == [request |-> NoRequest, read |-> <<>>, composed |-> FALSE, letter |-> NoEffect,
         answer |-> "NONE", delivered |-> FALSE]
Reply(r) == [to |-> r.to, text |-> r.text]
Busy(p) == handler[p] # Free

-----------------------------------------------------------------------------
(* Idempotency-Key: the same request gets the first answer, and another    *)
(* one under the same key 409.                                             *)
Under(p, r) == {a \in answers[p] : a.user = r.user /\ a.key = r.key}
Answered(p, r) == r.key # "none" /\ Under(p, r) # {}

(* _idempotency_store. *)
Remembered(p, r) == IF r.key = "none" THEN answers[p] ELSE answers[p] \cup {r}

Keys(r) == IF r.key = "none" THEN {} ELSE {[user |-> r.user, key |-> r.key]}
Carried(p, r) ==
  /\ ranBy' = [ranBy EXCEPT ![p] = @ \cup Keys(r)]
  /\ again' = (again \/ Keys(r) \cap ranBy[p] # {})

(* _reply_delivery_key; mutant: every operator delivers once. *)
KeyOfUser(r)   == [by |-> r.user, reply |-> Reply(r)]
DeliveryKey(r) == [by |-> "anyone", reply |-> Reply(r)]

(* A run of the graph classifies and audits the event again, so that any   *)
(* run may be halted where another of the same request composes the reply. *)
Composes(r) == IF r.to = NoBuyer THEN {FALSE} ELSE BOOLEAN

(* _delivery_seen, asked only of what the preview composed. *)
Seen(p, r, preview) == preview /\ DeliveryKey(r) \in ledger[p]

(* The run of a draft, or of a send that is halted or has no recipient.    *)
Composed(p, r, composed) ==
  /\ handler' = [handler EXCEPT ![p] = [Free EXCEPT !.request = r, !.read = record.data,
                                                    !.composed = composed]]
  /\ UNCHANGED <<vars, record, answers, ledger, letter, sentBy, ranBy, past>>

(* SEND_DEDUPED. *)
Deduped(p, r) ==
  /\ answers' = [answers EXCEPT ![p] = Remembered(p, r)]
  /\ told' = told \cup {Reply(r)}
  /\ Carried(p, r)
  /\ UNCHANGED <<vars, record, handler, ledger, letter, sentBy, blind, resent>>

(* The run of a send composes the reply, and fires it. *)
Sends(p, r, preview, e) ==
  /\ Fire(p, e)
  /\ letter' = [letter EXCEPT ![e] = Reply(r)]
  /\ handler' = [handler EXCEPT ![p] = [Free EXCEPT !.request = r, !.read = record.data,
                                                    !.composed = TRUE, !.letter = e]]
  /\ blind' = IF preview THEN blind ELSE blind \cup {e}
  /\ UNCHANGED <<record, answers, ledger, sentBy, ranBy, told, resent, again>>

(* A DRAFT_REPLY or SEND_REPLY is read, guarded and, for a send, previewed *)
(* in a run of its own; a run that raises ends the request.                *)
Submit(p, r) ==
  /\ proc[p] = IdleProc /\ ~Busy(p)
  /\ r \in deployment.requests /\ submits < deployment.submits
  /\ submits' = submits + 1
  /\ \/ UNCHANGED <<vars, record, handler, answers, ledger, letter, sentBy, ranBy, past>>
     \/ /\ ~Answered(p, r) /\ record.open            \* else the first answer, 409
        /\ \/ /\ r.action = "DRAFT_REPLY"
              /\ \E composed \in Composes(r) : Composed(p, r, composed)
           \/ /\ r.action = "SEND_REPLY"
              /\ \E preview, send \in Composes(r) :
                   \/ Seen(p, r, preview) /\ Deduped(p, r)
                   \/ ~Seen(p, r, preview) /\ ~send /\ Composed(p, r, FALSE)
                   \/ /\ ~Seen(p, r, preview) /\ send
                      /\ \E e \in deployment.letters : Sends(p, r, preview, e)

(* The gateway answers whatever is calling it; what it says of a letter it *)
(* took may still not be that it was delivered.                            *)
Returns(p, answer) ==
  /\ RunReturns(p, answer)
  /\ \/ /\ proc[p].task = "effect" /\ Busy(p)
        /\ \E delivered \in {FALSE, answer = "SUCCESS"} :
             handler' = [handler EXCEPT ![p] = [@ EXCEPT !.answer = answer, !.delivered = delivered]]
     \/ /\ ~(proc[p].task = "effect" /\ Busy(p))
        /\ UNCHANGED handler
  /\ UNCHANGED <<record, answers, ledger, letter, submits, sentBy, ranBy, past>>

-----------------------------------------------------------------------------
(* _append_reply_revision: the chain read with the record, and what of the *)
(* text changed; mutant: every draft is a revision.                        *)
EveryDraft(chain, h) ==
  IF ~h.composed THEN chain
  ELSE Append(chain, [version |-> Len(chain) + 1, text |-> h.request.text,
                      source |-> IF chain = <<>> THEN "AI_GENERATED" ELSE "OPERATOR_EDIT"])
Revised(chain, h) ==
  IF ~h.composed \/ (chain # <<>> /\ chain[Len(chain)].text = h.request.text) THEN chain
  ELSE EveryDraft(chain, h)

(* What counts as delivered. *)
Delivered(h) == h.answer = "SUCCESS" /\ h.delivered

Status(p) == IF Delivered(handler[p]) THEN "SENT" ELSE "FAILED"

(* _persist_reply_draft, _persist_reply_sent: resolution_data as it was    *)
(* read, with the entry in it.                                             *)
Written(p) ==
  LET h == handler[p]
  IN  IF h.request.action = "DRAFT_REPLY"
      THEN [h.read EXCEPT !.revisions = Revised(@, h)]
      ELSE [h.read EXCEPT !.sent = [status |-> Status(p), effect |-> h.letter]]

Sent(p) == handler[p].letter # NoEffect /\ Delivered(handler[p])
Alike(p, e) == \E d \in sentBy[p] : letter[d] = letter[e]

(* The ledger of deliveries is written before the record. *)
Deliver(p) ==
  LET e == handler[p].letter
  IN  IF Sent(p)
      THEN /\ ledger' = [ledger EXCEPT ![p] = @ \cup {DeliveryKey(handler[p].request)}]
           /\ sentBy' = [sentBy EXCEPT ![p] = @ \cup {e}]
           /\ resent' = IF Alike(p, e) THEN resent \cup {e} ELSE resent
      ELSE UNCHANGED <<ledger, sentBy, resent>>

Ready(p) == Busy(p) /\ proc[p] = IdleProc

Persist(p) ==
  /\ Ready(p)
  /\ Deliver(p)
  /\ record' = [record EXCEPT !.data = Written(p)]
  /\ answers' = [answers EXCEPT ![p] = Remembered(p, handler[p].request)]
  /\ Carried(p, handler[p].request)
  /\ handler' = [handler EXCEPT ![p] = Free]
  /\ UNCHANGED <<vars, letter, submits, told, blind>>

(* The database refuses the update: 500, and no answer is kept. *)
PersistFails(p) ==
  /\ deployment.durable /\ Ready(p)
  /\ faults < deployment.faults /\ faults' = faults + 1
  /\ Deliver(p)
  /\ handler' = [handler EXCEPT ![p] = Free]
  /\ UNCHANGED <<deployment, proc, fired, entry, late, applied>>
  /\ UNCHANGED <<record, answers, letter, submits, ranBy, told, blind, again>>

(* The run raises after the call: 500, and nothing is remembered. *)
RunRaises(p) ==
  /\ Ready(p) /\ faults < deployment.faults /\ faults' = faults + 1
  /\ handler' = [handler EXCEPT ![p] = Free]
  /\ UNCHANGED <<deployment, proc, fired, entry, late, applied>>
  /\ UNCHANGED <<record, answers, ledger, letter, submits, sentBy, ranBy, past>>

(* Another handler takes the record out of the review states. *)
Close(p) ==
  /\ deployment.requests # {} /\ proc[p] = IdleProc /\ ~Busy(p) /\ record.open
  /\ record' = [record EXCEPT !.open = FALSE]
  /\ UNCHANGED <<vars, handler, answers, ledger, letter, submits, sentBy, ranBy, past>>

(* An answer is kept for a day. *)
Forget(p, a) ==
  /\ a \in answers[p] /\ faults < deployment.faults /\ faults' = faults + 1
  /\ answers' = [answers EXCEPT ![p] = @ \ {a}]
  /\ ranBy' = [ranBy EXCEPT ![p] = @ \ Keys(a)]
  /\ UNCHANGED <<deployment, proc, fired, entry, late, applied>>
  /\ UNCHANGED <<record, handler, ledger, letter, submits, sentBy, past>>

(* The caches and the handler die with the process, and so does a record   *)
(* that is kept in memory.                                                 *)
Restart(p) ==
  /\ Crash(p)
  /\ handler' = [handler EXCEPT ![p] = Free]
  /\ answers' = [answers EXCEPT ![p] = {}] /\ ledger' = [ledger EXCEPT ![p] = {}]
  /\ sentBy' = [sentBy EXCEPT ![p] = {}] /\ ranBy' = [ranBy EXCEPT ![p] = {}]
  /\ record' = IF deployment.durable THEN record ELSE [record EXCEPT !.open = FALSE]
  /\ UNCHANGED <<letter, submits, past>>

-----------------------------------------------------------------------------
(* What the outbox does between requests. *)
OutboxStep(p) ==
  /\ \/ /\ ~Busy(p)
        /\ (\E e \in Effects : ApplyEffect(p, e)) \/ SchedulerPass(p) \/ AdminPass(p)
     \/ \E e \in Effects : Retry(p, e)
     \/ RecordEffect(p) \/ RecordFails(p) \/ Settle(p)
  /\ UNCHANGED desk

ReplyInit ==
  /\ Init
  /\ record = [open |-> TRUE, data |-> [revisions |-> <<>>, sent |-> NoEntry]]
  /\ handler = [p \in Replicas |-> Free]
  /\ answers = [p \in Replicas |-> {}] /\ ledger = [p \in Replicas |-> {}]
  /\ letter = [e \in Effects |-> Reply(NoRequest)]
  /\ submits = 0 /\ told = {} /\ blind = {} /\ resent = {} /\ again = FALSE
  /\ sentBy = [p \in Replicas |-> {}] /\ ranBy = [p \in Replicas |-> {}]

ReplyNext ==
  \/ \E p \in deployment.replicas :
       \/ \E r \in deployment.requests : Submit(p, r)
       \/ \E answer \in Answers : Returns(p, answer)
       \/ \E a \in answers[p] : Forget(p, a)
       \/ OutboxStep(p) \/ Persist(p) \/ PersistFails(p) \/ RunRaises(p) \/ Close(p) \/ Restart(p)
  \/ (\E e \in Effects : AbandonedCallEnds(e)) /\ UNCHANGED desk

(* As in EffectOutbox; a handler, once begun, comes to its end. *)
ReplyFairness ==
  \A p \in Replicas :
    /\ WF_allVars(\E answer \in Answers : Returns(p, answer))
    /\ WF_allVars((RecordEffect(p) \/ Settle(p) \/ \E e \in Effects : Retry(p, e)) /\ UNCHANGED desk)
    /\ WF_allVars(~Busy(p) /\ SchedulerPass(p) /\ UNCHANGED desk)
    /\ WF_allVars(Persist(p))

ReplySpec == ReplyInit /\ [][ReplyNext]_allVars /\ ReplyFairness

-----------------------------------------------------------------------------
(* The buyer was answered whenever the record says SENT, or an operator    *)
(* was told that the reply had been sent before, whatever timeouts,        *)
(* crashes and other replicas did to the call and to the record.           *)
SentWasDelivered ==
  /\ record.data.sent.status = "SENT" => applied[record.data.sent.effect] > 0
  /\ \A reply \in told : \E e \in Effects : letter[e] = reply /\ applied[e] > 0

(* _delivery_dedup: while a process lives it calls a reply SENT once only, *)
(* whoever asks and under whatever key, unless the preview of the later    *)
(* send was halted and its run was not.  (A restart, another replica and   *)
(* the outbox's retries can repeat a reply too.)                           *)
SentOncePerLife == resent \subseteq blind

(* Idempotency-Key: while a process lives and remembers, it carries out a  *)
(* key's request once, be the request repeated or changed.                 *)
KeyRunsOnce == ~again

(* What a record or an answer says of a reply happened, and once in a life *)
(* of the process that says so where its previews went through             *)
(* (_delivery_seen, _delivery_record, the Idempotency-Key cache).          *)
RepliesAreTrue == SentWasDelivered /\ SentOncePerLife /\ KeyRunsOnce

(* The history of a draft is a chain: it starts with the generated text,   *)
(* and every later version is an operator's change of the one before, even *)
(* when replicas overwrite each other's drafts.                            *)
RevisionsChain ==
  LET chain == record.data.revisions
  IN  \A i \in DOMAIN chain :
        /\ chain[i].version = i
        /\ chain[i].source = IF i = 1 THEN "AI_GENERATED" ELSE "OPERATOR_EDIT"
        /\ i > 1 => chain[i].text # chain[i - 1].text
===============================================================================
