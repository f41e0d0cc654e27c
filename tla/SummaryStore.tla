---------------------------- MODULE SummaryStore ----------------------------
(***************************************************************************)
(* The summaries of a session: SessionManager.maybe_auto_summarize and     *)
(* update_summary, ConversationSummarizer (src/memory/summarizer.py) and   *)
(* SQLiteSessionRepository.insert_summary, over the tables of SessionStore.*)
(*                                                                         *)
(* After a turn the thread that completed it replaces the older messages   *)
(* of its session by a text a model writes.  Nothing holds the session in  *)
(* between: the current summary is read first, the messages later, the     *)
(* model takes its time, the range is checked in one transaction and the   *)
(* row inserted in another.                                                *)
(*                                                                         *)
(* The text of a summary is abstracted to the set of messages it was       *)
(* written from.  Message ids are not given twice, so a message that has   *)
(* been deleted is told as Nil, not as the one that takes its number in a  *)
(* session created again.  Only a session's current summary is ever read,  *)
(* so older rows are left out.                                             *)
(***************************************************************************)
EXTENDS SessionStore

CONSTANTS
  MaxRecent,   \* max_recent_messages: the newest messages, never summarised
  Trigger,     \* summary_trigger_messages
  Batch        \* summary_batch_messages: fewer candidates are not worth a call

\* MemoryConfig refuses numbers that are not positive and a trigger below
\* the window of recent messages.
ASSUME SummaryAssumption ==
  /\ MaxRecent \in Nat \ {0}
  /\ Trigger \in Nat
  /\ MaxRecent <= Trigger
  /\ Batch \in Nat \ {0}

VARIABLES
  current,     \* a session's current summary (sessions.current_summary_id)
  draft        \* what a client that is summarising has read and made so far

summaryVars == <<storeVars, current, draft>>

Summary == [told : SUBSET (Message \cup {Nil}), from : Nat \ {0}, to : Nat \ {0}]

Draft ==
  [at : {"read"}, session : Sessions, old : Summary \cup {Nil}]
    \cup [at : {"compress", "insert"}, session : Sessions, new : Summary]

\* A draft and a summary are told from Nil.
ASSUME SummaryNilAssumption == Nil \notin Draft /\ Nil \notin Summary

SummaryTypeOK ==
  /\ StoreTypeOK
  /\ current \in [Sessions -> Summary \cup {Nil}]
  /\ draft \in [Clients -> Draft \cup {Nil}]

SummaryInit ==
  /\ StoreInit
  /\ current = [s \in Sessions |-> Nil]
  /\ draft = [c \in Clients |-> Nil]

-----------------------------------------------------------------------------
(* What is read *)

Conversation(s) == {m \in messages : m.session = s}

\* load_recent_messages: the MaxRecent messages with the highest numbers.
Recent(s) ==
  {m \in Conversation(s) :
     Cardinality({x \in Conversation(s) : x.seq > m.seq}) < MaxRecent}

CoveredTo(summary) == IF summary = Nil THEN 0 ELSE summary.to
Told(summary) == IF summary = Nil THEN {} ELSE summary.told

\* Mutant: the newest of the old messages is taken for covered already.
CandidatesPastNext(s, old) ==
  {m \in Conversation(s) \ Recent(s) : m.seq > CoveredTo(old) + 1}

\* _build_candidate: the messages before the recent window that the summary
\* the client has read does not cover.
Candidates(s, old) ==
  {m \in Conversation(s) \ Recent(s) : m.seq > CoveredTo(old)}

LastSeq(S) == CHOOSE n \in {m.seq : m \in S} : \A m \in S : m.seq <= n

\* _build_chunks: the old summary and then every candidate.
Written(s, old) ==
  [told |-> Told(old) \cup Candidates(s, old),
   from |-> 1,
   to |-> LastSeq(Candidates(s, old))]

-----------------------------------------------------------------------------
(* Summarising, one step for each transaction that matters *)

Ready(c) == Idle(c) /\ draft[c] = Nil
DraftAt(c, at) == draft[c] # Nil /\ draft[c].at = at
Discard(c) == draft' = [draft EXCEPT ![c] = Nil]

\* maybe_auto_summarize and the head of summarize: the session exists and has
\* more messages than the trigger; its current summary is read.
BeginSummary(c, s) ==
  /\ Ready(c)
  /\ sessions[s] # Nil
  /\ Cardinality(Conversation(s)) > Trigger
  /\ draft' = [draft EXCEPT ![c] = [at |-> "read", session |-> s, old |-> current[s]]]
  /\ UNCHANGED <<storeVars, current>>

\* The candidates are read and handed to the model; too few of them, and the
\* summary stays as it is.
GatherCandidates(c) ==
  /\ DraftAt(c, "read")
  /\ LET s == draft[c].session
         old == draft[c].old
     IN draft' = [draft EXCEPT ![c] =
          IF Cardinality(Candidates(s, old)) < Batch THEN Nil
          ELSE [at |-> "compress", session |-> s, new |-> Written(s, old)]]
  /\ UNCHANGED <<storeVars, current>>

\* The model fails or raises, the session has gone, or the write fails: the old
\* summary stays, complete_turn catches what is raised.
AbandonSummary(c) ==
  /\ draft[c] # Nil
  /\ Discard(c)
  /\ UNCHANGED <<storeVars, current>>

\* update_summary's two checks, against the summary that is current by now.
InRange(s, to) ==
  /\ sessions[s] # Nil
  /\ CoveredTo(current[s]) + 1 <= to
  /\ to <= NextSeq(s) - 1

CheckRange(c) ==
  /\ DraftAt(c, "compress")
  /\ LET s == draft[c].session
         new == draft[c].new
     IN draft' = [draft EXCEPT ![c] =
          IF InRange(s, new.to)
          THEN [at |-> "insert", session |-> s,
                new |-> [new EXCEPT !.from = CoveredTo(current[s]) + 1]]
          ELSE Nil]
  /\ UNCHANGED <<storeVars, current>>

\* insert_summary: the row and sessions.current_summary_id, with no look at the
\* summary that is current now; the FOREIGN KEY wants the session.
InsertSummary(c) ==
  /\ DraftAt(c, "insert")
  /\ sessions[draft[c].session] # Nil
  /\ current' = [current EXCEPT ![draft[c].session] = draft[c].new]
  /\ Discard(c)
  /\ UNCHANGED storeVars

SummaryStep(c) ==
  \/ \E s \in Sessions : BeginSummary(c, s)
  \/ GatherCandidates(c)
  \/ CheckRange(c)
  \/ InsertSummary(c)
  \/ AbandonSummary(c)

\* What a text was written from, once messages have been deleted.
Aged(summary) ==
  IF summary = Nil THEN Nil
  ELSE [summary EXCEPT !.told = {IF m \in messages' THEN m ELSE Nil : m \in summary.told}]

AgedDraft(d) ==
  CASE d = Nil -> Nil
    [] d # Nil /\ d.at = "read" -> [d EXCEPT !.old = Aged(d.old)]
    [] OTHER -> [d EXCEPT !.new = Aged(d.new)]

\* A step of the store; ON DELETE CASCADE takes a session's summary with it.
TableStep ==
  /\ \/ \E c \in Clients : draft[c] = Nil /\ StoreStep(c)
     \/ \E C \in SUBSET Clients : AbandonCalls(C)
  /\ current' = [s \in Sessions |-> IF sessions'[s] = Nil THEN Nil ELSE Aged(current[s])]
  /\ draft' = [c \in Clients |-> AgedDraft(draft[c])]

SummaryNext == TableStep \/ \E c \in Clients : SummaryStep(c)

SummarySpec == SummaryInit /\ [][SummaryNext]_summaryVars

-----------------------------------------------------------------------------
(* Properties *)

\* Summaries forget nothing: every message a session's current summary stands
\* for was told to the model that wrote it, directly or through the summary
\* before it, although the old summary, the messages and the range are read in
\* three transactions and other threads summarise meanwhile.  (A summary that
\* was begun in a deleted session tells messages that are gone; it is excused.)
NothingForgotten ==
  \A s \in Sessions : current[s] # Nil /\ Nil \notin current[s].told =>
    {m \in Conversation(s) : m.seq <= current[s].to} \subseteq current[s].told
=============================================================================
