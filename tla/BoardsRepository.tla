------------------------- MODULE BoardsRepository -------------------------
(***************************************************************************)
(* Data/Repositories/BoardRepository.swift over Cloud Firestore.           *)
(*                                                                         *)
(* A write is queued on the device, shows at once in the device's view of  *)
(* the documents, and is accepted or refused later by the server, in the   *)
(* order of the queue.  A read is answered later, in any order, with the   *)
(* view of that moment; the answer is then posted to the main queue        *)
(* (DispatchQueue.main.async), a FIFO that the view models consume.        *)
(*                                                                         *)
(* A document of the collection "boards" is <<b>>; a document of its       *)
(* subcollection "posts" is <<b, p>>.                                      *)
(***************************************************************************)
EXTENDS Naturals, Sequences, FiniteSets

CONSTANTS
    Boards,     \* document ids that addDocument can give to a board
    Posts,      \* document ids that addDocument can give to a post
    NoUid,      \* the empty string, the uid of a board that was never stored
    Nil,        \* no board saved
    Slots,      \* bound: reads in flight and answers waiting, together
    MaxWrites,  \* bound: queued writes
    ReadOutcomes, WriteOutcomes  \* bound: whether reads fail, writes are refused

ASSUME OutcomesAssumption == ReadOutcomes \subseteq BOOLEAN /\ WriteOutcomes \subseteq BOOLEAN
ASSUME UidAssumption == NoUid \notin Boards /\ Nil \notin Boards \cup {NoUid}

VARIABLES
    server,     \* the documents the server has
    writes,     \* the writes queued on the device, oldest first
    reads,      \* the reads in flight, one per slot
    main,       \* the answers waiting on the main queue
    refused     \* history: documents of which the server refused to store a version

repoVars == <<server, writes, reads, main, refused>>

Docs == {<<b>> : b \in Boards} \cup (Boards \X Posts)
Saved == Boards \cup {NoUid, Nil}

Write == [op : {"set", "delete"}, doc : Docs, done : {"none", "board", "post"}]

\* captured: what getAllBoards read from LocalRepository before the call;
\* newest: history, no later getAllPosts has been called.
Read == [kind : {"idle", "boards", "posts", "purge"}, board : Boards \cup {NoUid},
         captured : Saved, newest : BOOLEAN]
Idle == [kind |-> "idle", board |-> NoUid, captured |-> Nil, newest |-> FALSE]

Answers == [kind : {"boards", "posts", "purge", "board", "post"},
            board : Boards \cup {NoUid}, captured : Saved, newest : BOOLEAN,
            ok : BOOLEAN, found : SUBSET (Boards \cup Posts)]

RepoTypeOK ==
    /\ server \subseteq Docs
    /\ writes \in Seq(Write)
    /\ reads \in [Slots -> Read]
    /\ main \in Seq(Answers)
    /\ refused \subseteq Docs

-----------------------------------------------------------------------------
(* The device's view: the server's documents under the queued writes.        *)

InView(d) ==
    LET on == {i \in DOMAIN writes : writes[i].doc = d}
    IN  IF on = {} THEN d \in server
        ELSE \E i \in on : writes[i].op = "set" /\ \A j \in on : j <= i

BoardsInView == {b \in Boards : InView(<<b>>)}
PostsInView(b) == {p \in Posts : InView(<<b, p>>)}

Free(s) == reads[s].kind = "idle"

\* The bound on new work; a completion handler, which ends one piece of work,
\* always has room to start the next.
Room == Cardinality({s \in Slots : ~Free(s)}) + Len(main) < Cardinality(Slots)

Outstanding(kinds) ==
    \/ \E s \in Slots : reads[s].kind \in kinds
    \/ \E i \in DOMAIN main : main[i].kind \in kinds

-----------------------------------------------------------------------------
(* Calls.  They are parts of the view models' steps.                         *)

Enqueue(op, doc, done) ==
    /\ Len(writes) < MaxWrites
    /\ writes' = Append(writes, [op |-> op, doc |-> doc, done |-> done])

\* add, update: addDocument + updateData(uid), setData; no completion handler.
SetItem(b, p) == Enqueue("set", <<b, p>>, "none")
DeleteItem(b, p) == Enqueue("delete", <<b, p>>, "post")
Create(b) == Enqueue("set", <<b>>, "none")
Delete(b) == Enqueue("delete", <<b>>, "board")

GetAllBoards(s, captured) ==
    /\ Free(s)
    /\ reads' = [reads EXCEPT ![s] =
           [kind |-> "boards", board |-> NoUid, captured |-> captured, newest |-> FALSE]]

GetAllItensToPurge(s, b) ==
    /\ Free(s)
    /\ reads' = [reads EXCEPT ![s] =
           [kind |-> "purge", board |-> b, captured |-> Nil, newest |-> FALSE]]

GetAllItensToShow(s, b) ==
    /\ Free(s)
    /\ reads' = [t \in Slots |->
           IF t = s
           THEN [kind |-> "posts", board |-> b, captured |-> Nil, newest |-> TRUE]
           ELSE [reads[t] EXCEPT !.newest = FALSE]]

NoLongerNewest(queue) == [i \in DOMAIN queue |-> [queue[i] EXCEPT !.newest = FALSE]]

-----------------------------------------------------------------------------
(* Steps of Firestore.                                                       *)

Found(r) == IF r.kind = "boards" THEN BoardsInView ELSE PostsInView(r.board)

Answer(s, ok) ==
    /\ ~Free(s)
    /\ LET r == reads[s]
       IN  main' = Append(main, [kind |-> r.kind, board |-> r.board,
                                 captured |-> r.captured, newest |-> r.newest,
                                 ok |-> ok, found |-> IF ok THEN Found(r) ELSE {}])
    /\ reads' = [reads EXCEPT ![s] = Idle]
    /\ UNCHANGED <<server, writes, refused>>

Completed(w, ok) ==
    [kind |-> w.done, board |-> w.doc[1], captured |-> Nil, newest |-> FALSE,
     ok |-> ok, found |-> {}]

Settle(ok) ==
    /\ writes # <<>>
    /\ writes' = Tail(writes)
    /\ LET w == Head(writes)
       IN  /\ server' = IF ~ok THEN server
                        ELSE IF w.op = "set" THEN server \cup {w.doc}
                        ELSE server \ {w.doc}
           /\ refused' = IF ~ok /\ w.op = "set" THEN refused \cup {w.doc} ELSE refused
           /\ IF w.done = "none" THEN UNCHANGED main
              ELSE Room /\ main' = Append(main, Completed(w, ok))
    /\ UNCHANGED reads
=============================================================================
