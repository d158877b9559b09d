-------------------------- MODULE ObjectStoreProofs --------------------------
(***************************************************************************)
(* What the file routes promise of any number of requests, buckets and     *)
(* objects, and of any paths and names.                                    *)
(***************************************************************************)
EXTENDS ObjectStore, TLAPS, WellFoundedInduction, SequenceTheorems

-----------------------------------------------------------------------------
\* Which calls are on their way.

\* A call is sent by an upload or a delete that passed its checks.
Called(r) == op[r].kind # "list" /\ ~BadRequest(op[r])

\* The functions the routes keep, where they have values and what is sent when.
Books ==
    /\ op \in [Requests -> Operations]
    /\ pc \in [Requests -> {"unsent", "received", "waiting", "buckets", "listing", "done", "cut"}]
    /\ reply \in [Requests -> {0, 200, 201, 400, 401, 405, 500, 502}]
    /\ call \in [Requests -> {"none", "sent", "done", "refused"}]
    /\ expired \in [Requests -> BOOLEAN]
    /\ alone \in [Requests -> BOOLEAN]
    /\ DOMAIN entries = Requests /\ DOMAIN seen = Requests
    /\ \A r \in Requests :
         /\ pc[r] \in {"unsent", "received"} => reply[r] = 0 /\ call[r] = "none"
         /\ pc[r] = "waiting" => Called(r)
         /\ pc[r] \in {"buckets", "listing"} => op[r].kind = "list"
         /\ call[r] # "none" => Called(r)

\* While a request is alone none of its rivals has a call on the way.
AloneInv ==
    \A r \in Requests : alone[r] /\ call[r] # "none" => \A q \in Rivals(r) : call[q] # "sent"

\* What the call of a request that is alone has done.
Done(r) ==
    IF op[r].kind = "upload"
      THEN KeyOf(r) \in DOMAIN objects /\ objects[KeyOf(r)] = r
      ELSE KeyOf(r) \notin DOMAIN objects

DoneInv == \A r \in Requests : alone[r] /\ call[r] = "done" => Done(r)

\* An upload or a delete is confirmed after the store has confirmed it.
Confirmed(r) ==
    \/ reply[r] = 201
    \/ reply[r] = 200 /\ op[r].kind = "delete"

ConfirmedInv ==
    \A r \in Requests :
        /\ Confirmed(r) => call[r] = "done"
        /\ reply[r] = 201 => op[r].kind = "upload"

Inv == Books /\ AloneInv /\ DoneInv /\ ConfirmedInv

\* What a request asks for does not change, nor what object that is.
LEMMA KeysStay == ASSUME UNCHANGED op
                  PROVE  \A r \in Requests : /\ KeyOf(r)' = KeyOf(r)
                                             /\ Rivals(r)' = Rivals(r)
                                             /\ Called(r)' = Called(r)
<1>1. \A r \in Requests : KeyOf(r)' = KeyOf(r) /\ Called(r)' = Called(r)
  BY DEF KeyOf, Filename, Called
<1> QED
  BY <1>1 DEF Rivals

\* Two calls on one object make each the other's rival.
LEMMA RivalsMeet == ASSUME NEW r \in Requests, NEW s \in Requests \ {r},
                           Called(r), Called(s), KeyOf(r) = KeyOf(s)
                    PROVE  r \in Rivals(s) /\ s \in Rivals(r)
  BY DEF Rivals, Called

LEMMA InitInv == Init => Inv
<1> SUFFICES ASSUME Init PROVE Inv
  OBVIOUS
<1>1. Books
  BY DEF Init, Books
<1>2. \A r \in Requests : call[r] = "none" /\ reply[r] = 0
  BY DEF Init
<1> QED
  BY <1>1, <1>2 DEF Inv, AloneInv, DoneInv, ConfirmedInv, Confirmed

\* Steps that reply, that do not confirm.
Refusal(r) ==
    \/ Unauthorized(r) \/ WrongMethod(r) \/ NotConfigured(r) \/ Malformed(r) \/ Reject(r)
    \/ NotBuilt(r) \/ GiveUp(r) \/ NoBuckets(r)

\* Steps within a listing.
Listing(r) ==
    \/ BeginListing(r) \/ ListBuckets(r) \/ ListBucketFiles(r) \/ LoseBody(r) \/ NoFiles(r)
    \/ Expire(r)

\* A step that leaves alone what is on the way, what there is and what was said.
LEMMA QuietKeeps == ASSUME Inv, UNCHANGED <<op, call, alone, objects, reply>>, Books'
                    PROVE  Inv'
<1>1. \A r \in Requests : /\ KeyOf(r)' = KeyOf(r)
                          /\ Rivals(r)' = Rivals(r)
  BY KeysStay
<1>2. AloneInv'
  BY <1>1 DEF Inv, AloneInv
<1>3. DoneInv'
  BY <1>1 DEF Inv, DoneInv, Done
<1>4. ConfirmedInv'
  BY DEF Inv, ConfirmedInv, Confirmed
<1> QED
  BY <1>2, <1>3, <1>4 DEF Inv

\* A reply that confirms nothing the store has not.
LEMMA ReplyKeeps == ASSUME Inv, NEW r \in Requests, NEW status \in {200, 201, 400, 401, 405, 500, 502},
                           Respond(r, status), pc[r] \notin {"unsent", "done", "cut"},
                           status = 201 => op[r].kind = "upload" /\ call[r] = "done",
                           status = 200 => op[r].kind # "delete" \/ call[r] = "done"
                    PROVE  Inv'
<1> USE DEF Inv, Books, Respond
<1>1. \A q \in Requests : /\ KeyOf(q)' = KeyOf(q)
                          /\ Rivals(q)' = Rivals(q)
                          /\ Called(q)' = Called(q)
  BY KeysStay
<1>2. AloneInv'
  BY <1>1 DEF AloneInv
<1>3. DoneInv'
  BY <1>1 DEF DoneInv, Done
<1>4. ConfirmedInv'
  BY DEF ConfirmedInv, Confirmed
<1>5. Books'
  BY <1>1
<1> QED
  BY <1>2, <1>3, <1>4, <1>5

\* What a handler may ask for.
LEMMA KindsOnly == ASSUME Books, NEW r \in Requests
                   PROVE  op[r].kind \in Kinds /\ (op[r].all => op[r].kind = "list")
  BY OperationsAssumption DEF Books

LEMMA RepliesKeep == ASSUME Inv, NEW r \in Requests,
                            Refusal(r) \/ Answered(r) \/ EndListing(r)
                     PROVE  Inv'
<1> USE DEF Inv
<1>1. CASE Refusal(r)
  BY <1>1, ReplyKeeps DEF Refusal, Unauthorized, WrongMethod, NotConfigured, Malformed, Reject,
                          NotBuilt, GiveUp, NoBuckets
<1>2. CASE EndListing(r)
  <2>1. pc[r] = "listing" /\ op[r].kind = "list"
    BY <1>2 DEF EndListing, Books
  <2> QED
    BY <1>2, <2>1, ReplyKeeps DEF EndListing
<1>3. CASE Answered(r)
  <2>1. call[r] \in {"done", "refused"} /\ pc[r] = "waiting"
    BY <1>3 DEF Answered
  <2>2. CASE call[r] = "refused"
    <3>1. Respond(r, 502)
      BY <1>3, <2>2 DEF Answered
    <3> QED
      BY <2>1, <3>1, ReplyKeeps
  <2>3. CASE call[r] = "done" /\ op[r].kind = "upload"
    <3>1. Respond(r, 201)
      BY <1>3, <2>3 DEF Answered
    <3> QED
      BY <2>1, <2>3, <3>1, ReplyKeeps
  <2>4. CASE call[r] = "done" /\ op[r].kind # "upload"
    <3>1. Respond(r, 200)
      BY <1>3, <2>4 DEF Answered
    <3> QED
      BY <2>1, <2>4, <3>1, ReplyKeeps
  <2> QED
    BY <2>1, <2>2, <2>3, <2>4
<1> QED
  BY <1>1, <1>2, <1>3

\* Receiving a request, listing and dying send and confirm nothing.
LEMMA QuietSteps == ASSUME Inv, \/ \E r \in Requests : Receive(r) \/ Listing(r)
                                \/ Crash \/ UNCHANGED vars
                    PROVE  UNCHANGED <<op, call, alone, objects>> /\ Inv'
<1> USE DEF Inv, Books
<1>1. ASSUME NEW r \in Requests, Receive(r) \/ BeginListing(r) \/ ListBuckets(r) \/ Expire(r)
      PROVE  UNCHANGED <<op, call, alone, objects, reply>> /\ Books'
  <2>1. UNCHANGED <<op, call, alone, objects, reply>>
    BY <1>1 DEF Receive, BeginListing, ListBuckets, Expire
  <2>2. \A q \in Requests : Called(q)' = Called(q)
    BY <2>1, KeysStay
  <2>3. CASE Receive(r)
    BY <2>1, <2>2, <2>3 DEF Receive
  <2>4. CASE BeginListing(r)
    BY <2>1, <2>2, <2>4 DEF BeginListing
  <2>5. CASE ListBuckets(r)
    BY <2>1, <2>2, <2>5 DEF ListBuckets
  <2>6. CASE Expire(r)
    BY <2>1, <2>2, <2>6 DEF Expire
  <2> QED
    BY <1>1, <2>1, <2>3, <2>4, <2>5, <2>6
<1>2. ASSUME NEW r \in Requests, NEW entry, Enter(r, entry)
      PROVE  UNCHANGED <<op, call, alone, objects, reply>> /\ Books'
  <2>1. UNCHANGED <<op, call, alone, objects, reply, pc, expired, seen>> /\ DOMAIN entries' = Requests
    BY <1>2 DEF Enter
  <2>2. \A q \in Requests : Called(q)' = Called(q)
    BY <2>1, KeysStay
  <2> QED
    BY <2>1, <2>2
<1>3. CASE Crash \/ UNCHANGED vars
  <2>1. /\ UNCHANGED <<op, call, alone, objects, reply, expired, seen, entries>>
        /\ pc' \in [Requests -> {"unsent", "received", "waiting", "buckets", "listing", "done", "cut"}]
        /\ \A q \in Requests : pc'[q] = pc[q] \/ pc'[q] = "cut"
    BY <1>3 DEF Crash, vars
  <2>2. \A q \in Requests : Called(q)' = Called(q)
    BY <2>1, KeysStay
  <2> QED
    BY <2>1, <2>2, QuietKeeps
<1>4. ASSUME NEW r \in Requests, NoFiles(r) PROVE UNCHANGED <<op, call, alone, objects>> /\ Inv'
  <2>1. pc[r] = "listing" /\ op[r].kind = "list"
    BY <1>4 DEF NoFiles, Pending
  <2>2. CASE op[r].all
    BY <1>2, <1>4, <2>2, QuietKeeps DEF NoFiles
  <2>3. CASE ~op[r].all
    BY <1>4, <2>1, <2>3, ReplyKeeps DEF NoFiles, Respond
  <2> QED
    BY <2>2, <2>3
<1>5. ASSUME NEW r \in Requests, ListBucketFiles(r) \/ LoseBody(r)
      PROVE  UNCHANGED <<op, call, alone, objects, reply>> /\ Books'
  <2>1. CASE ListBucketFiles(r)
    BY <1>2, <2>1 DEF ListBucketFiles
  <2>2. CASE LoseBody(r)
    BY <1>2, <2>2 DEF LoseBody
  <2> QED
    BY <1>5, <2>1, <2>2
<1>6. ASSUME NEW r \in Requests, Receive(r) \/ Listing(r)
      PROVE  UNCHANGED <<op, call, alone, objects>> /\ Inv'
  <2>1. CASE NoFiles(r)
    BY <1>4, <2>1
  <2>2. CASE ~NoFiles(r)
    <3>1. UNCHANGED <<op, call, alone, objects, reply>> /\ Books'
      BY <1>1, <1>5, <1>6, <2>2 DEF Listing
    <3> HIDE DEF Inv, Books
    <3> QED
      BY <3>1, QuietKeeps
  <2> QED
    BY <2>1, <2>2
<1> QED
  BY <1>3, <1>6

\* A call that is sent ends the peace of its rivals.
LEMMA SendKeeps == ASSUME Inv, NEW r \in Requests, Send(r)
                   PROVE  Inv'
<1> USE DEF Inv
<1>1. \A q \in Requests : /\ KeyOf(q)' = KeyOf(q)
                          /\ Rivals(q)' = Rivals(q)
                          /\ Called(q)' = Called(q)
  BY KeysStay DEF Send
<1>2. /\ Called(r) /\ pc[r] = "received" /\ call[r] = "none" /\ reply[r] = 0
      /\ pc' = [pc EXCEPT ![r] = "waiting"]
      /\ call' = [call EXCEPT ![r] = "sent"]
      /\ UNCHANGED <<op, reply, expired, entries, objects, seen>>
  BY DEF Send, Called, Books
<1>3. ASSUME NEW s \in Requests, alone'[s]
      PROVE  /\ s = r => \A q \in Rivals(r) : call[q] # "sent"
             /\ s # r => alone[s] /\ s \notin Rivals(r)
  <2>1. alone'[s] = IF s = r THEN \A q \in Rivals(r) : call[q] # "sent"
                            ELSE alone[s] /\ s \notin Rivals(r)
    BY DEF Send
  <2> QED
    BY <1>3, <2>1
<1>4. Books'
  <2>1. alone' \in [Requests -> BOOLEAN]
    BY DEF Send, Books
  <2>2. call' \in [Requests -> {"none", "sent", "done", "refused"}]
    BY <1>2 DEF Books
  <2>3. ASSUME NEW q \in Requests
        PROVE  /\ pc'[q] \in {"unsent", "received"} => reply'[q] = 0 /\ call'[q] = "none"
               /\ pc'[q] = "waiting" => Called(q)
               /\ pc'[q] \in {"buckets", "listing"} => op'[q].kind = "list"
               /\ call'[q] # "none" => Called(q)
    BY <1>2 DEF Books
  <2> QED
    BY <1>1, <1>2, <2>1, <2>2, <2>3 DEF Books
<1>5. r \notin Rivals(r) /\ \A s \in Requests : Rivals(s) \subseteq Requests
  BY DEF Rivals
<1>6. ASSUME NEW s \in Requests, alone'[s], call'[s] # "none", NEW q \in Rivals(s)
      PROVE  call'[q] # "sent"
  <2>1. CASE s = r
    <3>1. q \in Requests \ {r} /\ call[q] # "sent"
      BY <1>3, <1>5, <1>6, <2>1
    <3> QED
      BY <1>2, <3>1 DEF Books
  <2>2. CASE s # r
    <3>1. alone[s] /\ s \notin Rivals(r) /\ call[s] # "none"
      BY <1>2, <1>3, <1>6, <2>2 DEF Books
    <3>2. Called(s)
      BY <3>1 DEF Books
    <3>3. q # r
      BY <1>2, <2>2, <3>1, <3>2, RivalsMeet, <1>6 DEF Rivals
    <3>4. call[q] # "sent"
      BY <1>6, <3>1 DEF AloneInv
    <3> QED
      BY <1>2, <1>5, <3>3, <3>4 DEF Books
  <2> QED
    BY <2>1, <2>2
<1>7. AloneInv'
  BY <1>1, <1>6 DEF AloneInv
<1>8. DoneInv'
  <2>1. ASSUME NEW s \in Requests, alone'[s], call'[s] = "done" PROVE Done(s)'
    <3>1. s # r /\ call[s] = "done"
      BY <1>2, <2>1 DEF Books
    <3>2. Done(s)
      BY <1>3, <2>1, <3>1 DEF DoneInv
    <3> QED
      BY <1>1, <1>2, <3>2 DEF Done
  <2> QED
    BY <2>1 DEF DoneInv
<1>9. ConfirmedInv'
  BY <1>2 DEF ConfirmedInv, Confirmed, Books
<1> QED
  BY <1>4, <1>7, <1>8, <1>9

\* A call the store settles touches its own object.
LEMMA SettleKeeps == ASSUME Inv, NEW r \in Requests, External(r)
                     PROVE  Inv'
<1> USE DEF Inv
<1>1. /\ call[r] = "sent" /\ Called(r)
      /\ UNCHANGED <<configured, op, pc, reply, expired, entries, alone>>
      /\ DOMAIN seen' = Requests
      /\ call' \in [Requests -> {"none", "sent", "done", "refused"}]
      /\ call'[r] \in {"done", "refused"}
      /\ \A q \in Requests \ {r} : call'[q] = call[q]
  BY DEF External, Store, Remove, Refuse, Settle, Books
<1>2. \A q \in Requests : /\ KeyOf(q)' = KeyOf(q)
                          /\ Rivals(q)' = Rivals(q)
                          /\ Called(q)' = Called(q)
  BY <1>1, KeysStay
<1>3. Books'
  BY <1>1, <1>2 DEF Books
<1>4. AloneInv'
  BY <1>1, <1>2 DEF AloneInv, Rivals
<1>5. ConfirmedInv'
  BY <1>1 DEF ConfirmedInv, Confirmed
<1>6. /\ \A k : k # KeyOf(r) => /\ k \in DOMAIN objects' <=> k \in DOMAIN objects
                                /\ k \in DOMAIN objects => objects'[k] = objects[k]
      /\ call'[r] = "done" => Done(r)'
  <2>1. CASE Store(r)
    BY <1>1, <1>2, <2>1 DEF Store, Settle, Done
  <2>2. CASE Remove(r)
    BY <1>1, <1>2, <2>2 DEF Remove, Settle, Done
  <2>3. CASE Refuse(r)
    BY <1>1, <1>2, <2>3 DEF Refuse, Settle, Books
  <2> QED
    BY <2>1, <2>2, <2>3 DEF External
<1>7. ASSUME NEW s \in Requests, alone'[s], call'[s] = "done" PROVE Done(s)'
  <2>1. CASE s = r
    BY <1>6, <1>7, <2>1
  <2>2. CASE s # r
    <3>1. alone[s] /\ call[s] = "done" /\ Called(s)
      BY <1>1, <1>7, <2>2 DEF Books
    <3>2. KeyOf(s) # KeyOf(r)
      BY <1>1, <2>2, <3>1, RivalsMeet DEF AloneInv
    <3>3. Done(s)
      BY <3>1 DEF DoneInv
    <3> QED
      BY <1>1, <1>2, <1>6, <3>2, <3>3 DEF Done
  <2> QED
    BY <2>1, <2>2
<1>8. DoneInv'
  BY <1>7 DEF DoneInv
<1> QED
  BY <1>3, <1>4, <1>5, <1>8

LEMMA NextInv == Inv /\ [Next]_vars => Inv'
<1> SUFFICES ASSUME Inv, [Next]_vars PROVE Inv'
  OBVIOUS
<1>1. ASSUME NEW r \in Requests, Handler(r)
      PROVE  Refusal(r) \/ Answered(r) \/ EndListing(r) \/ Send(r) \/ Listing(r)
  BY <1>1 DEF Handler, Refusal, Listing
<1>2. ASSUME NEW r \in Requests, Expire(r) PROVE Listing(r)
  BY <1>2 DEF Listing
<1> QED
  BY <1>1, <1>2, RepliesKeep, QuietSteps, SendKeeps, SettleKeeps DEF Next

\* An upload answered 201 is the object and a delete answered 200 has removed it,
\* for as long as no other call on that object has been on its way since.
THEOREM ConfirmationsStand == Spec => []ConfirmedStands
<1>1. Inv => ConfirmedStands
  <2> SUFFICES ASSUME Inv, NEW r \in Requests, alone[r]
               PROVE  /\ reply[r] = 201 => KeyOf(r) \in DOMAIN objects /\ objects[KeyOf(r)] = r
                      /\ reply[r] = 200 /\ op[r].kind = "delete" => KeyOf(r) \notin DOMAIN objects
    BY DEF ConfirmedStands
  <2>1. Confirmed(r) => Done(r)
    BY DEF Inv, ConfirmedInv, DoneInv
  <2>2. reply[r] = 201 => op[r].kind = "upload"
    BY DEF Inv, ConfirmedInv
  <2> QED
    BY <2>1, <2>2 DEF Confirmed, Done
<1> QED
  BY InitInv, NextInv, <1>1, PTL DEF Spec

-----------------------------------------------------------------------------
\* What a listing shows.

\* An entry is the store at a moment before the deadline, an answer that was lost
\* or, among all buckets, an error.
TrueEntry(r, i) ==
    \/ \E keys \in seen[r] :
         entries[r][i] = [ok   |-> TRUE,
                          keys |-> Under(keys, Targets(op[r])[i], CleanOptionalPath(op[r].path))]
    \/ entries[r][i] = [ok |-> TRUE, keys |-> {}]
    \/ op[r].all /\ ~entries[r][i].ok

\* A listing under way has seen what the store holds until its deadline, has made
\* no more entries than there are buckets, and has not answered.
ListingInv ==
    \A r \in Requests :
        /\ pc[r] \in {"unsent", "received"} => entries[r] = <<>>
        /\ pc[r] \in {"buckets", "listing"} =>
             /\ reply[r] = 0
             /\ ~expired[r] => DOMAIN objects \in seen[r]
        /\ \E S : entries[r] \in Seq(S)
        /\ Len(entries[r]) <= Len(Targets(op[r]))
        /\ \A i \in DOMAIN entries[r] : TrueEntry(r, i)
        /\ op[r].kind = "list" /\ reply[r] = 200 => Len(entries[r]) = Len(Targets(op[r]))

LInv == Inv /\ ListingInv

LEMMA TargetsType == \A o : Len(Targets(o)) \in Nat
<1> TAKE o
<1>1. Buckets \in Seq(Names)
  BY StoreAssumption
<1>2. <<Bucket(o)>> \in Seq({Bucket(o)})
  OBVIOUS
<1> QED
  BY <1>1, <1>2 DEF Targets

\* An entry stays true while the store is only seen more often.
LEMMA EntriesStay == ASSUME UNCHANGED op, NEW r \in Requests, NEW i,
                            entries'[r][i] = entries[r][i], seen[r] \subseteq seen'[r],
                            TrueEntry(r, i)
                     PROVE  TrueEntry(r, i)'
<1>1. op' = op
  OBVIOUS
<1>2. Targets(op'[r]) = Targets(op[r]) /\ CleanOptionalPath(op'[r].path) = CleanOptionalPath(op[r].path)
  BY <1>1
<1>3. CASE \E keys \in seen[r] :
             entries[r][i] = [ok   |-> TRUE,
                              keys |-> Under(keys, Targets(op[r])[i], CleanOptionalPath(op[r].path))]
  BY <1>2, <1>3 DEF TrueEntry
<1> QED
  BY <1>1, <1>3 DEF TrueEntry

\* What a step means to a listing of which it changes no entry: it forgets nothing
\* that was seen and answers only when the entries are complete.
Continues(q) ==
    /\ pc'[q] \in {"unsent", "received"} => pc[q] \in {"unsent", "received"}
    /\ pc'[q] \in {"buckets", "listing"} =>
         /\ reply'[q] = 0
         /\ ~expired'[q] => DOMAIN objects' \in seen'[q]
    /\ seen[q] \subseteq seen'[q]
    /\ op[q].kind = "list" /\ reply'[q] = 200 =>
         \/ reply[q] = 200
         \/ Len(entries[q]) = Len(Targets(op[q]))

LEMMA ListingKeeps == ASSUME LInv, Inv', UNCHANGED <<op, entries>>,
                             \A q \in Requests : Continues(q)
                      PROVE  LInv'
<1>1. ASSUME NEW q \in Requests
      PROVE  /\ pc'[q] \in {"unsent", "received"} => entries'[q] = <<>>
             /\ pc'[q] \in {"buckets", "listing"} =>
                  /\ reply'[q] = 0
                  /\ ~expired'[q] => DOMAIN objects' \in seen'[q]
             /\ \E S : entries'[q] \in Seq(S)
             /\ Len(entries'[q]) <= Len(Targets(op'[q]))
             /\ op'[q].kind = "list" /\ reply'[q] = 200 => Len(entries'[q]) = Len(Targets(op'[q]))
  BY DEF LInv, ListingInv, Continues
<1>2. ASSUME NEW q \in Requests, NEW i \in DOMAIN entries'[q] PROVE TrueEntry(q, i)'
  <2>1. TrueEntry(q, i)
    BY <1>2 DEF LInv, ListingInv
  <2> QED
    BY <2>1, EntriesStay DEF Continues
<1> QED
  BY <1>1, <1>2 DEF LInv, ListingInv

\* An entry is added to a listing that has room for it.
LEMMA EnterKeeps == ASSUME LInv, Inv', NEW r \in Requests, NEW entry, Pending(r), Enter(r, entry),
                           \/ \E keys \in seen[r] :
                                entry = [ok   |-> TRUE,
                                         keys |-> Under(keys, Targets(op[r])[Len(entries[r]) + 1],
                                                        CleanOptionalPath(op[r].path))]
                           \/ entry = [ok |-> TRUE, keys |-> {}]
                           \/ op[r].all /\ ~entry.ok
                    PROVE  LInv'
<1>1. UNCHANGED <<op, pc, reply, expired, objects, seen>>
  BY DEF Enter
<1>2. \A q \in Requests : entries'[q] = IF q = r THEN Append(entries[r], entry) ELSE entries[q]
  BY DEF Enter, LInv, Inv, Books
<1>3. PICK S : entries[r] \in Seq(S)
  BY DEF LInv, ListingInv
<1>4. pc[r] = "listing" /\ reply[r] = 0 /\ Len(entries[r]) < Len(Targets(op[r]))
  BY DEF Pending, LInv, ListingInv
<1>5. /\ entries'[r] = Append(entries[r], entry)
      /\ entries'[r] \in Seq(S \cup {entry})
      /\ Len(entries'[r]) = Len(entries[r]) + 1
      /\ DOMAIN entries'[r] = DOMAIN entries[r] \cup {Len(entries[r]) + 1}
      /\ entries'[r][Len(entries[r]) + 1] = entry
      /\ \A i \in DOMAIN entries[r] : entries'[r][i] = entries[r][i]
      /\ Len(entries[r]) \in Nat
  <2>1. entries[r] \in Seq(S \cup {entry}) /\ entry \in S \cup {entry}
    BY <1>3
  <2>2. entries'[r] = Append(entries[r], entry)
    BY <1>2
  <2> QED
    BY <2>1, <2>2
<1>6. Len(entries'[r]) <= Len(Targets(op[r]))
  BY <1>4, <1>5, TargetsType
<1>7. ASSUME NEW i \in DOMAIN entries'[r] PROVE TrueEntry(r, i)'
  <2>1. CASE i \in DOMAIN entries[r]
    <3>1. TrueEntry(r, i)
      BY <2>1 DEF LInv, ListingInv
    <3> QED
      BY <1>1, <1>5, <2>1, <3>1, EntriesStay
  <2>2. CASE i = Len(entries[r]) + 1
    <3>1. entries'[r][i] = entry
      BY <1>5, <2>2
    <3>2. op' = op /\ seen' = seen
      BY <1>1
    <3> QED
      BY <2>2, <3>1, <3>2 DEF TrueEntry
  <2> QED
    BY <1>5, <1>7, <2>1, <2>2
<1>8. ASSUME NEW q \in Requests, q # r, NEW i \in DOMAIN entries'[q] PROVE TrueEntry(q, i)'
  <2>1. entries'[q] = entries[q]
    BY <1>2, <1>8
  <2>2. TrueEntry(q, i)
    BY <1>8, <2>1 DEF LInv, ListingInv
  <2> QED
    BY <1>1, <2>1, <2>2, EntriesStay
<1>9. ASSUME NEW q \in Requests
      PROVE  /\ pc'[q] \in {"unsent", "received"} => entries'[q] = <<>>
             /\ pc'[q] \in {"buckets", "listing"} =>
                  /\ reply'[q] = 0
                  /\ ~expired'[q] => DOMAIN objects' \in seen'[q]
             /\ \E T : entries'[q] \in Seq(T)
             /\ Len(entries'[q]) <= Len(Targets(op'[q]))
             /\ op'[q].kind = "list" /\ reply'[q] = 200 => Len(entries'[q]) = Len(Targets(op'[q]))
  <2>1. CASE q = r
    <3>1. \E T : entries'[r] \in Seq(T)
      BY <1>5
    <3>2. ~expired[r] => DOMAIN objects \in seen[r]
      BY <1>4 DEF LInv, ListingInv
    <3> QED
      BY <1>1, <1>4, <1>6, <2>1, <3>1, <3>2
  <2>2. CASE q # r
    BY <1>1, <1>2, <2>2 DEF LInv, ListingInv
  <2> QED
    BY <2>1, <2>2
<1> QED
  BY <1>7, <1>8, <1>9 DEF LInv, ListingInv

LEMMA InitListing == Init => LInv
<1> SUFFICES ASSUME Init PROVE LInv
  OBVIOUS
<1>1. \A r \in Requests : pc[r] = "unsent" /\ reply[r] = 0 /\ entries[r] = <<>>
  BY DEF Init
<1>2. \A r \in Requests : /\ \E S : entries[r] \in Seq(S)
                          /\ Len(entries[r]) = 0 /\ DOMAIN entries[r] = {}
  <2>1. <<>> \in Seq({}) /\ Len(<<>>) = 0 /\ DOMAIN <<>> = {}
    OBVIOUS
  <2> QED
    BY <1>1, <2>1
<1> QED
  BY <1>1, <1>2, InitInv, TargetsType DEF LInv, ListingInv

LEMMA NextListing == LInv /\ [Next]_vars => LInv'
<1> SUFFICES ASSUME LInv, [Next]_vars PROVE LInv'
  OBVIOUS
<1>1. Inv'
  BY NextInv DEF LInv
<1>2. \A q \in Requests :
        /\ pc[q] \in {"buckets", "listing"} => reply[q] = 0 /\ (~expired[q] => DOMAIN objects \in seen[q])
        /\ pc[q] \in {"unsent", "received"} => reply[q] = 0
        /\ pc[q] \in {"buckets", "listing"} => op[q].kind = "list"
        /\ pc[q] = "waiting" => op[q].kind # "list"
  BY DEF LInv, ListingInv, Inv, Books, Called
<1> USE DEF LInv, Inv, Books
<1>3. ASSUME NEW r \in Requests, Receive(r) \/ ListBuckets(r) \/ Expire(r) \/ Send(r) PROVE LInv'
  <2>1. /\ UNCHANGED <<op, reply, entries, objects, seen>>
        /\ \A q \in Requests : expired'[q] \/ expired'[q] = expired[q]
        /\ \A q \in Requests \ {r} : pc'[q] = pc[q]
        /\ \/ pc[r] = "unsent" /\ pc'[r] = "received"
           \/ pc[r] = "buckets" /\ pc'[r] = "listing"
           \/ pc'[r] = pc[r]
           \/ pc'[r] = "waiting"
    <3>1. CASE Receive(r)
      BY <3>1 DEF Receive
    <3>2. CASE ListBuckets(r)
      BY <3>2 DEF ListBuckets
    <3>3. CASE Expire(r)
      BY <3>3 DEF Expire
    <3>4. CASE Send(r)
      BY <3>4 DEF Send
    <3> QED
      BY <1>3, <3>1, <3>2, <3>3, <3>4
  <2>2. ASSUME NEW q \in Requests PROVE Continues(q)
    <3>1. CASE q = r
      BY <1>2, <2>1, <3>1 DEF Continues
    <3>2. CASE q # r
      BY <1>2, <2>1, <3>2 DEF Continues
    <3> QED
      BY <3>1, <3>2
  <2> QED
    BY <1>1, <2>1, <2>2, ListingKeeps
<1>4. ASSUME NEW r \in Requests, BeginListing(r) PROVE LInv'
  <2>1. /\ UNCHANGED <<op, reply, entries, objects, expired>>
        /\ pc[r] = "received" /\ pc'[r] \in {"buckets", "listing"} /\ reply[r] = 0
        /\ seen'[r] = {DOMAIN objects}
        /\ \A q \in Requests \ {r} : pc'[q] = pc[q] /\ seen'[q] = seen[q]
    BY <1>4 DEF BeginListing
  <2>2. entries[r] = <<>> /\ \A q \in Requests : \E S : entries[q] \in Seq(S)
    BY <2>1 DEF ListingInv
  <2>3. ASSUME NEW q \in Requests
        PROVE  /\ pc'[q] \in {"unsent", "received"} => entries'[q] = <<>>
               /\ pc'[q] \in {"buckets", "listing"} =>
                    /\ reply'[q] = 0
                    /\ ~expired'[q] => DOMAIN objects' \in seen'[q]
               /\ Len(entries'[q]) <= Len(Targets(op'[q]))
               /\ op'[q].kind = "list" /\ reply'[q] = 200 => Len(entries'[q]) = Len(Targets(op'[q]))
    BY <1>2, <2>1 DEF ListingInv
  <2>4. ASSUME NEW q \in Requests, NEW i \in DOMAIN entries'[q] PROVE TrueEntry(q, i)'
    <3>1. q # r
      BY <2>1, <2>2, <2>4
    <3>2. TrueEntry(q, i)
      BY <2>1, <2>4 DEF ListingInv
    <3> QED
      BY <2>1, <3>1, <3>2, EntriesStay
  <2> QED
    BY <1>1, <2>1, <2>2, <2>3, <2>4 DEF ListingInv
<1>5. ASSUME NEW r \in Requests, NEW status \in {200, 201, 400, 401, 405, 500, 502}, Respond(r, status),
             status = 200 => op[r].kind # "list" \/ Len(entries[r]) = Len(Targets(op[r]))
      PROVE  LInv'
  <2>1. /\ UNCHANGED <<op, entries, objects, expired, seen>>
        /\ pc'[r] = "done" /\ reply'[r] = status
        /\ \A q \in Requests \ {r} : pc'[q] = pc[q] /\ reply'[q] = reply[q]
    BY <1>5 DEF Respond
  <2>2. ASSUME NEW q \in Requests PROVE Continues(q)
    <3>1. CASE q = r
      BY <1>2, <1>5, <2>1, <3>1 DEF Continues
    <3>2. CASE q # r
      BY <1>2, <1>5, <2>1, <3>2 DEF Continues
    <3> QED
      BY <3>1, <3>2
  <2> QED
    BY <1>1, <2>1, <2>2, ListingKeeps
<1>6. ASSUME NEW r \in Requests, Refusal(r) PROVE LInv'
  BY <1>5, <1>6 DEF Refusal, Unauthorized, WrongMethod, NotConfigured, Malformed, Reject, NotBuilt,
                    GiveUp, NoBuckets
<1>7. ASSUME NEW r \in Requests, Answered(r) PROVE LInv'
  <2>1. op[r].kind # "list"
    BY <1>2, <1>7 DEF Answered
  <2>2. Respond(r, 502) \/ Respond(r, 201) \/ Respond(r, 200)
    BY <1>7 DEF Answered
  <2> QED
    BY <1>5, <2>1, <2>2
<1>8. ASSUME NEW r \in Requests, EndListing(r) PROVE LInv'
  <2>1. entries[r] \in Seq({entries[r][i] : i \in DOMAIN entries[r]})
    BY DEF ListingInv
  <2>2. Len(entries[r]) = Len(Targets(op[r]))
    BY <1>8, <2>1, TargetsType DEF EndListing, Pending, ListingInv
  <2> QED
    BY <1>5, <1>8, <2>2 DEF EndListing
<1>9. ASSUME NEW r \in Requests, ListBucketFiles(r) PROVE LInv'
  <2>1. Pending(r) /\ DOMAIN objects \in seen[r]
    BY <1>2, <1>9 DEF ListBucketFiles, Pending
  <2> QED
    BY <1>1, <1>9, <2>1, EnterKeeps DEF ListBucketFiles
<1>10. ASSUME NEW r \in Requests, LoseBody(r) PROVE LInv'
  BY <1>1, <1>10, EnterKeeps DEF LoseBody
<1>11. ASSUME NEW r \in Requests, NoFiles(r) PROVE LInv'
  <2>1. CASE op[r].all
    BY <1>1, <1>11, <2>1, EnterKeeps DEF NoFiles
  <2>2. CASE ~op[r].all
    BY <1>5, <1>11, <2>2 DEF NoFiles
  <2> QED
    BY <2>1, <2>2
<1>12. ASSUME NEW r \in Requests, External(r) PROVE LInv'
  <2>1. PICK outcome, store : Settle(r, outcome, store)
    BY <1>12 DEF External, Store, Remove, Refuse
  <2>2. /\ UNCHANGED <<op, entries, pc, reply, expired>> /\ objects' = store
        /\ \A q \in Requests : seen'[q] = IF pc[q] \in {"buckets", "listing"} /\ ~expired[q]
                                          THEN seen[q] \cup {DOMAIN store} ELSE seen[q]
    BY <2>1 DEF Settle
  <2>3. ASSUME NEW q \in Requests PROVE Continues(q)
    <3>1. CASE pc[q] \in {"buckets", "listing"} /\ ~expired[q]
      <4>1. seen'[q] = seen[q] \cup {DOMAIN objects'}
        BY <2>2, <3>1
      <4> HIDE DEF Inv, Books
      <4> QED
        BY <1>2, <2>2, <4>1 DEF Continues
    <3>2. CASE ~(pc[q] \in {"buckets", "listing"} /\ ~expired[q])
      <4>1. seen'[q] = seen[q]
        BY <2>2, <3>2
      <4> HIDE DEF Inv, Books
      <4> QED
        BY <1>2, <2>2, <3>2, <4>1 DEF Continues
    <3> QED
      BY <3>1, <3>2
  <2> QED
    BY <1>1, <2>2, <2>3, ListingKeeps
<1>13. CASE Crash \/ UNCHANGED vars
  <2>1. /\ UNCHANGED <<op, reply, entries, objects, seen, expired>>
        /\ \A q \in Requests : pc'[q] = pc[q] \/ pc'[q] = "cut"
    BY <1>13 DEF Crash, vars
  <2>2. ASSUME NEW q \in Requests PROVE Continues(q)
    BY <1>2, <2>1 DEF Continues
  <2> QED
    BY <1>1, <2>1, <2>2, ListingKeeps
<1> QED
  BY <1>3, <1>4, <1>6, <1>7, <1>8, <1>9, <1>10, <1>11, <1>12, <1>13 DEF Next, Handler, Refusal

\* A listing answered 200 has an entry for every bucket, and every entry is what
\* the bucket held at some moment before the deadline, a lost answer, or, among
\* all buckets, an error.
THEOREM ListingsShowStore == Spec => []ListingsTrue
<1>1. LInv => ListingsTrue
  BY DEF LInv, ListingInv, ListingsTrue, TrueEntry
<1> QED
  BY InitListing, NextListing, <1>1, PTL DEF Spec

-----------------------------------------------------------------------------
\* Texts without what is around them.

\* A set of numbers has a least one, and one that is bounded a greatest one.
LEMMA LeastNumber == ASSUME NEW S \in SUBSET Nat, S # {}
                     PROVE  \E i \in S : \A j \in S : i <= j
<1> DEFINE R == OpToRel(<, Nat)
<1>1. IsWellFoundedOn(R, Nat)
  BY NatLessThanWellFounded
<1>2. \A i \in Nat, j \in Nat : j < i => <<j, i>> \in R
  BY Zenon DEF OpToRel
<1> HIDE DEF R
<1>3. PICK i \in S : \A j \in S : <<j, i>> \notin R
  BY <1>1, WFMin, Zenon
<1>4. \A j \in S : ~ (j < i)
  BY <1>2, <1>3
<1> QED
  BY <1>4

LEMMA LeastIs == ASSUME NEW n \in Nat, NEW S \in SUBSET (1..n), S # {}
                 PROVE  Least(S) \in S /\ \A j \in S : Least(S) <= j
<1>1. \E i \in S : \A j \in S : i <= j
  BY LeastNumber
<1> QED
  BY <1>1 DEF Least

LEMMA GreatestIs == ASSUME NEW n \in Nat, NEW S \in SUBSET (1..n), S # {}
                    PROVE  Greatest(S) \in S /\ \A j \in S : j <= Greatest(S)
<1> DEFINE T == {n - i : i \in S}
<1>1. T \in SUBSET Nat /\ T # {}
  <2>1. \A i \in S : n - i \in Nat
    OBVIOUS
  <2>2. T \subseteq Nat
    BY <2>1
  <2>3. PICK i \in S : TRUE
    OBVIOUS
  <2>4. n - i \in T
    OBVIOUS
  <2> QED
    BY <2>2, <2>4
<1>2. PICK m \in T : \A j \in T : m <= j
  BY <1>1, LeastNumber
<1>3. PICK i \in S : m = n - i
  BY <1>2
<1>4. \A j \in S : j <= i
  <2> TAKE j \in S
  <2>1. n - j \in T
    OBVIOUS
  <2>2. n - i <= n - j
    BY <1>2, <1>3, <2>1
  <2> QED
    BY <2>2
<1>5. \E k \in S : \A j \in S : k >= j
  BY <1>4
<1> QED
  BY <1>5 DEF Greatest

\* The text has no c at either end.
Bare(text, c) == text # <<>> => text[1] # c /\ text[Len(text)] # c

\* Trimming leaves a text with no c at its ends, and one that is bare as it is.
LEMMA TrimBare == ASSUME NEW S, NEW text \in Seq(S), NEW c
                  PROVE  /\ Trim(text, c) \in Seq(S)
                         /\ Bare(Trim(text, c), c)
                         /\ Bare(text, c) => Trim(text, c) = text
<1> DEFINE kept == {i \in DOMAIN text : text[i] # c}
<1>1. Len(text) \in Nat /\ DOMAIN text = 1..Len(text) /\ \A i \in 1..Len(text) : text[i] \in S
  BY LenProperties, ElementOfSeq
<1>2. CASE kept = {}
  <2>1. Trim(text, c) = <<>> /\ <<>> \in Seq(S)
    BY <1>2 DEF Trim
  <2>2. Bare(text, c) => text = <<>>
    <3> SUFFICES ASSUME Bare(text, c), text # <<>> PROVE FALSE
      OBVIOUS
    <3>1. Len(text) # 0
      BY EmptySeq
    <3>2. 1 \in kept
      BY <1>1, <3>1 DEF Bare
    <3> QED
      BY <1>2, <3>2
  <2> QED
    BY <2>1, <2>2 DEF Bare
<1>3. CASE kept # {}
  <2> DEFINE l == Least(kept)
             g == Greatest(kept)
  <2>1. l \in kept /\ g \in kept /\ \A j \in kept : l <= j /\ j <= g
    BY <1>1, <1>3, LeastIs, GreatestIs
  <2>2. Trim(text, c) = SubSeq(text, l, g)
    BY <1>3 DEF Trim
  <2>3. l \in 1..Len(text) /\ g \in 1..Len(text) /\ l <= g /\ text[l] # c /\ text[g] # c
    BY <1>1, <2>1
  <2> HIDE DEF l, g, kept
  <2>4. /\ SubSeq(text, l, g) \in Seq(S)
        /\ Len(SubSeq(text, l, g)) = g - l + 1
        /\ \A i \in 1..(g - l + 1) : SubSeq(text, l, g)[i] = text[l + i - 1]
    <3>1. \A i \in l..g : text[i] \in S
      BY <1>1, <2>3
    <3>2. l \in Int /\ g \in Int
      BY <1>1, <2>3
    <3> QED
      BY <2>3, <3>1, <3>2, SubSeqProperties
  <2>5. Bare(SubSeq(text, l, g), c)
    BY <1>1, <2>3, <2>4 DEF Bare
  <2>6. ASSUME Bare(text, c) PROVE SubSeq(text, l, g) = text
    <3>1. text # <<>>
      BY <1>1, <2>3
    <3>2. 1 \in kept /\ Len(text) \in kept
      <4>1. text[1] # c /\ text[Len(text)] # c
        BY <2>6, <3>1 DEF Bare
      <4>2. 1 \in 1..Len(text) /\ Len(text) \in 1..Len(text)
        BY <1>1, <2>3
      <4> QED
        BY <1>1, <4>1, <4>2 DEF kept
    <3>3. l = 1 /\ g = Len(text)
      <4>1. l <= 1 /\ Len(text) <= g
        BY <2>1, <3>2
      <4>2. \A m \in Nat : \A x, y \in 1..m : x <= 1 /\ m <= y => x = 1 /\ y = m
        OBVIOUS
      <4> QED
        BY <1>1, <2>3, <4>1, <4>2
    <3> QED
      BY <3>3, SubSeqFull
  <2> QED
    BY <2>2, <2>4, <2>5, <2>6
<1> QED
  BY <1>2, <1>3

-----------------------------------------------------------------------------
\* The parts of a path.  Recursion over a sequence is not built into the provers:
\* that the function which gathers the parts exists is shown first.

Gathers(f, path, m) ==
    f = [n \in 0..m |-> IF n = 0 THEN <<>>
                        ELSE IF TrimSpace(path[n]) = <<>> THEN f[n - 1]
                        ELSE Append(f[n - 1], TrimSpace(path[n]))]

LEMMA GatherExists == ASSUME NEW path, NEW m \in Nat
                      PROVE  \E f : Gathers(f, path, m)
<1> DEFINE Bad == {n \in Nat : ~ \E f : Gathers(f, path, n)}
<1> SUFFICES ASSUME Bad # {} PROVE FALSE
  OBVIOUS
<1>1. PICK n \in Bad : \A j \in Bad : n <= j
  BY LeastNumber
<1>2. n \in Nat /\ ~ \E f : Gathers(f, path, n)
  BY <1>1
<1>3. CASE n = 0
  <2> DEFINE g == [i \in 0..0 |-> <<>>]
  <2>1. Gathers(g, path, 0)
    BY DEF Gathers
  <2> QED
    BY <1>2, <1>3, <2>1
<1>4. CASE n # 0
  <2>1. n - 1 \in Nat /\ n - 1 \notin Bad
    BY <1>1, <1>2, <1>4
  <2>2. PICK f : Gathers(f, path, n - 1)
    BY <2>1
  <2> DEFINE last == IF TrimSpace(path[n]) = <<>> THEN f[n - 1]
                     ELSE Append(f[n - 1], TrimSpace(path[n]))
             g    == [i \in 0..n |-> IF i = n THEN last ELSE f[i]]
             h    == [i \in 0..n |-> IF i = 0 THEN <<>>
                                     ELSE IF TrimSpace(path[i]) = <<>> THEN g[i - 1]
                                     ELSE Append(g[i - 1], TrimSpace(path[i]))]
  <2>3. ASSUME NEW i \in 0..n PROVE g[i] = h[i]
    <3>1. CASE i = n
      <4>1. n - 1 \in 0..n /\ n - 1 # n /\ n \in 0..n
        BY <1>2, <1>4
      <4>2. g[n - 1] = f[n - 1] /\ g[n] = last
        BY <4>1
      <4> HIDE DEF g
      <4>3. h[n] = last
        BY <1>4, <4>1, <4>2
      <4> QED
        BY <3>1, <4>2, <4>3
    <3>2. CASE i # n
      <4>1. i \in 0..(n - 1)
        BY <1>2, <3>2
      <4>2. g[i] = f[i]
        BY <3>2
      <4>3. i # 0 => g[i - 1] = f[i - 1]
        BY <4>1, <1>2
      <4>4. f[i] = IF i = 0 THEN <<>>
                   ELSE IF TrimSpace(path[i]) = <<>> THEN f[i - 1]
                   ELSE Append(f[i - 1], TrimSpace(path[i]))
        BY <2>2, <4>1, Zenon DEF Gathers
      <4> HIDE DEF g
      <4> QED
        BY <4>2, <4>3, <4>4
    <3> QED
      BY <3>1, <3>2
  <2>4. g = h
    BY <2>3
  <2>5. Gathers(g, path, n)
    BY <2>4 DEF Gathers
  <2> QED
    BY <1>2, <2>5
<1> QED
  BY <1>3, <1>4

LEMMA PartsGathered == ASSUME NEW path, Len(path) \in Nat
                       PROVE  \E f : Gathers(f, path, Len(path)) /\ Parts(path) = f[Len(path)]
<1> DEFINE f == CHOOSE g : Gathers(g, path, Len(path))
<1>1. Gathers(f, path, Len(path))
  BY GatherExists
<1>2. Parts(path) = f[Len(path)]
  BY DEF Parts, Gathers
<1> QED
  BY <1>1, <1>2

\* What the gathering does at each part.
LEMMA GatherSteps == ASSUME NEW path, NEW m \in Nat, NEW f, Gathers(f, path, m)
                     PROVE  /\ f[0] = <<>>
                            /\ \A n \in 1..m : f[n] = IF TrimSpace(path[n]) = <<>> THEN f[n - 1]
                                                      ELSE Append(f[n - 1], TrimSpace(path[n]))
<1> DEFINE body(n) == IF n = 0 THEN <<>>
                      ELSE IF TrimSpace(path[n]) = <<>> THEN f[n - 1]
                      ELSE Append(f[n - 1], TrimSpace(path[n]))
<1>1. f = [n \in 0..m |-> body(n)]
  BY DEF Gathers
<1>2. \A n \in 0..m : f[n] = body(n)
  BY <1>1, Zenon
<1>3. 0 \in 0..m /\ \A n \in 1..m : n \in 0..m /\ n # 0
  OBVIOUS
<1> QED
  BY <1>2, <1>3

\* A part is a text with something in it and no space around it.
Part(S) == {text \in Seq(S) : text # <<>> /\ Bare(text, Space)}

LEMMA PartsType == ASSUME NEW S, NEW path \in Seq(Seq(S))
                   PROVE  Parts(path) \in Seq(Part(S))
<1>1. Len(path) \in Nat /\ \A n \in 1..Len(path) : path[n] \in Seq(S)
  BY LenProperties, ElementOfSeq
<1>2. \A n \in 1..Len(path) : TrimSpace(path[n]) = <<>> \/ TrimSpace(path[n]) \in Part(S)
  BY <1>1, TrimBare DEF TrimSpace, Part
<1>3. PICK f : Gathers(f, path, Len(path)) /\ Parts(path) = f[Len(path)]
  BY <1>1, PartsGathered
<1>4. /\ f[0] = <<>>
      /\ \A n \in 1..Len(path) : f[n] = IF TrimSpace(path[n]) = <<>> THEN f[n - 1]
                                        ELSE Append(f[n - 1], TrimSpace(path[n]))
  BY <1>1, <1>3, GatherSteps
<1> DEFINE Bad == {n \in 0..Len(path) : f[n] \notin Seq(Part(S))}
<1>5. Bad = {}
  <2> SUFFICES ASSUME Bad # {} PROVE FALSE
    OBVIOUS
  <2>1. PICK n \in Bad : \A j \in Bad : n <= j
    <3>1. Bad \in SUBSET Nat
      BY <1>1
    <3> QED
      BY <3>1, LeastNumber
  <2>2. n \in 0..Len(path) /\ f[n] \notin Seq(Part(S))
    BY <2>1
  <2>3. n # 0
    BY <1>4, <2>2, EmptySeq
  <2>4. n \in 1..Len(path) /\ n - 1 \in 0..Len(path) /\ ~ (n <= n - 1)
    BY <1>1, <2>2, <2>3
  <2>5. f[n - 1] \in Seq(Part(S))
    BY <2>1, <2>4
  <2>6. f[n] = IF TrimSpace(path[n]) = <<>> THEN f[n - 1] ELSE Append(f[n - 1], TrimSpace(path[n]))
    BY <1>4, <2>4
  <2>7. TrimSpace(path[n]) = <<>> \/ TrimSpace(path[n]) \in Part(S)
    BY <1>2, <2>4
  <2>8. ASSUME NEW s \in Seq(Part(S)), NEW e \in Part(S) PROVE Append(s, e) \in Seq(Part(S))
    BY <2>8
  <2> HIDE DEF Bad
  <2> QED
    BY <2>2, <2>5, <2>6, <2>7, <2>8
<1>6. Len(path) \in 0..Len(path)
  BY <1>1
<1> QED
  BY <1>3, <1>5, <1>6

\* A path that is clean stays as it is.
LEMMA PartsOfClean == ASSUME NEW S, NEW path \in Seq(Part(S))
                      PROVE  Parts(path) = path
<1>1. Len(path) \in Nat /\ \A n \in 1..Len(path) : path[n] \in Part(S)
  BY LenProperties, ElementOfSeq
<1>2. \A n \in 1..Len(path) : TrimSpace(path[n]) = path[n] /\ path[n] # <<>>
  BY <1>1, TrimBare DEF TrimSpace, Part
<1>3. PICK f : Gathers(f, path, Len(path)) /\ Parts(path) = f[Len(path)]
  BY <1>1, PartsGathered
<1>4. /\ f[0] = <<>>
      /\ \A n \in 1..Len(path) : f[n] = IF TrimSpace(path[n]) = <<>> THEN f[n - 1]
                                        ELSE Append(f[n - 1], TrimSpace(path[n]))
  BY <1>1, <1>3, GatherSteps
<1> DEFINE Bad == {n \in 0..Len(path) : f[n] # SubSeq(path, 1, n)}
<1>5. Bad = {}
  <2> SUFFICES ASSUME Bad # {} PROVE FALSE
    OBVIOUS
  <2>1. PICK n \in Bad : \A j \in Bad : n <= j
    <3>1. Bad \in SUBSET Nat
      BY <1>1
    <3> QED
      BY <3>1, LeastNumber
  <2>2. n \in 0..Len(path) /\ f[n] # SubSeq(path, 1, n)
    BY <2>1
  <2>3. n # 0
    <3>1. SubSeq(path, 1, 0) = <<>>
      BY SubSeqEmpty
    <3> QED
      BY <1>4, <2>2, <3>1
  <2>4. n \in 1..Len(path) /\ n - 1 \in 0..Len(path) /\ ~ (n <= n - 1)
    BY <1>1, <2>2, <2>3
  <2>5. f[n - 1] = SubSeq(path, 1, n - 1)
    BY <2>1, <2>4
  <2>6. f[n] = Append(SubSeq(path, 1, n - 1), path[n])
    BY <1>2, <1>4, <2>4, <2>5
  <2>7. SubSeq(path, 1, n) = Append(SubSeq(path, 1, n - 1), path[n])
    <3> DEFINE s == SubSeq(path, 1, n - 1)
               t == SubSeq(path, 1, n)
               u == Append(s, path[n])
    <3>1. /\ s \in Seq(Part(S)) /\ Len(s) = n - 1 /\ \A i \in 1..(n - 1) : s[i] = path[i]
          /\ t \in Seq(Part(S)) /\ Len(t) = n /\ \A i \in 1..n : t[i] = path[i]
      BY <1>1, <2>4, SubSeqProperties
    <3> HIDE DEF s, t
    <3>2. path[n] \in Part(S)
      BY <1>1, <2>4
    <3>3. u \in Seq(Part(S)) /\ Len(u) = n /\ \A i \in 1..n : u[i] = path[i]
      BY <2>4, <3>1, <3>2
    <3> HIDE DEF u
    <3>4. t = u
      <4>1. Len(t) = Len(u) /\ \A i \in 1..Len(t) : t[i] = u[i]
        BY <3>1, <3>3
      <4> QED
        BY <3>1, <3>3, <4>1, SeqEqual
    <3> QED
      BY <3>4 DEF s, t, u
  <2> QED
    BY <2>2, <2>6, <2>7
<1>6. Len(path) \in 0..Len(path)
  BY <1>1
<1> QED
  BY <1>3, <1>5, <1>6, SubSeqFull

\* A cleaned path is clean: CleanPath accepts what it has returned and returns it
\* again, so that the path a delete reports is the same request when it is sent back.
THEOREM CleanedOnce == ASSUME NEW S, NEW path \in Seq(Seq(S)), ~CleanPathFails(path)
                       PROVE  /\ ~CleanPathFails(CleanPath(path))
                              /\ CleanPath(CleanPath(path)) = CleanPath(path)
<1>1. Parts(path) \in Seq(Part(S))
  BY PartsType
<1>2. Parts(Parts(path)) = Parts(path)
  BY <1>1, PartsOfClean
<1> QED
  BY <1>2 DEF CleanPath, CleanPathFails

-----------------------------------------------------------------------------
\* Whose objects there are.

\* An object that a request wrote has the key of that request, an upload that
\* passed its checks.
WrittenInv ==
    \A k \in DOMAIN objects : objects[k] \in Requests =>
        /\ k = KeyOf(objects[k])
        /\ op[objects[k]].kind = "upload"
        /\ Called(objects[k])

WInv == Inv /\ WrittenInv

LEMMA OnlyStoreWrites == ASSUME [Next]_vars
                         PROVE  op' = op /\ (objects' = objects \/ \E r \in Requests : External(r))
<1>1. ASSUME NEW r \in Requests, Handler(r) \/ Receive(r) \/ Expire(r) PROVE op' = op /\ objects' = objects
  BY <1>1 DEF Handler, Respond, Enter, Receive, Unauthorized, WrongMethod, NotConfigured, Malformed,
              Reject, NotBuilt, Send, Answered, GiveUp, BeginListing, ListBuckets, NoBuckets, ListBucketFiles,
              LoseBody, NoFiles, EndListing, Expire
<1>2. ASSUME NEW r \in Requests, External(r) PROVE op' = op
  BY <1>2 DEF External, Store, Remove, Refuse, Settle
<1>3. CASE Crash \/ UNCHANGED vars
  BY <1>3 DEF Crash, vars
<1> QED
  BY <1>1, <1>2, <1>3 DEF Next

LEMMA StoreWrites == ASSUME WInv, NEW r \in Requests, External(r) PROVE WrittenInv'
<1> USE DEF WInv, WrittenInv
<1>1. call[r] = "sent" /\ op' = op
  BY DEF External, Store, Remove, Refuse, Settle
<1>2. Called(r)
  BY <1>1 DEF Inv, Books
<1>3. \A q \in Requests : KeyOf(q)' = KeyOf(q) /\ Called(q)' = Called(q)
  BY <1>1, KeysStay
<1>4. CASE Store(r)
  <2>1. op[r].kind = "upload"
    BY <1>4 DEF Store
  <2>2. objects' = [k \in DOMAIN objects \cup {KeyOf(r)} |-> IF k = KeyOf(r) THEN r ELSE objects[k]]
    BY <1>4 DEF Store, Settle
  <2>3. ASSUME NEW k \in DOMAIN objects', objects'[k] \in Requests
        PROVE  k = KeyOf(objects'[k]) /\ op[objects'[k]].kind = "upload" /\ Called(objects'[k])
    <3>1. CASE k = KeyOf(r)
      <4>1. objects'[k] = r
        BY <2>2, <3>1
      <4> QED
        BY <1>2, <2>1, <3>1, <4>1
    <3>2. CASE k # KeyOf(r)
      <4>1. k \in DOMAIN objects /\ objects'[k] = objects[k]
        BY <2>2, <2>3, <3>2
      <4> QED
        BY <2>3, <4>1
    <3> QED
      BY <3>1, <3>2
  <2> QED
    BY <1>1, <1>3, <2>3
<1>5. CASE Remove(r) \/ Refuse(r)
  <2>1. DOMAIN objects' \subseteq DOMAIN objects /\ \A k \in DOMAIN objects' : objects'[k] = objects[k]
    BY <1>5 DEF Remove, Refuse, Settle
  <2> QED
    BY <1>1, <1>3, <2>1
<1> QED
  BY <1>4, <1>5 DEF External

LEMMA InitWritten == Init => WInv
<1> SUFFICES ASSUME Init PROVE WInv
  OBVIOUS
<1>1. \A k \in DOMAIN objects : objects[k] \notin Requests
  BY StoreAssumption DEF Init
<1> QED
  BY <1>1, InitInv DEF WInv, WrittenInv

LEMMA NextWritten == WInv /\ [Next]_vars => WInv'
<1> SUFFICES ASSUME WInv, [Next]_vars PROVE WInv'
  OBVIOUS
<1>1. Inv'
  BY NextInv DEF WInv
<1>2. CASE objects' = objects /\ op' = op
  <2>1. \A q \in Requests : KeyOf(q)' = KeyOf(q) /\ Called(q)' = Called(q)
    BY <1>2, KeysStay
  <2> QED
    BY <1>1, <1>2, <2>1 DEF WInv, WrittenInv
<1>3. CASE \E r \in Requests : External(r)
  BY <1>1, <1>3, StoreWrites DEF WInv
<1> QED
  BY <1>2, <1>3, OnlyStoreWrites

-----------------------------------------------------------------------------
\* The key of an upload.

\* A folder that passes the checks is clean and leads nowhere else.
LEMMA FolderClean == ASSUME NEW path \in Path, ~CleanOptionalPathFails(path)
                     PROVE  /\ CleanOptionalPath(path) \in Seq(Part(Symbols))
                            /\ \A i \in DOMAIN CleanOptionalPath(path) :
                                 CleanOptionalPath(path)[i] \notin Traversal
<1>1. Parts(path) \in Seq(Part(Symbols))
  BY PartsType DEF Path, Text
<1>2. CASE Blank(path)
  <2>1. CleanOptionalPath(path) = <<>> /\ <<>> \in Seq(Part(Symbols)) /\ DOMAIN <<>> = {}
    BY <1>2 DEF CleanOptionalPath
  <2> QED
    BY <2>1
<1>3. CASE ~Blank(path)
  <2>1. CleanOptionalPath(path) = Parts(path) /\ ~CleanPathFails(path)
    BY <1>3 DEF CleanOptionalPath, CleanOptionalPathFails, CleanPath
  <2> QED
    BY <1>1, <2>1 DEF CleanPathFails
<1> QED
  BY <1>2, <1>3

\* A file name is not empty and has no dot at its ends, so it leads nowhere else.
LEMMA FilenameSafe == ASSUME NEW r \in Requests, op[r] \in Operations
                      PROVE  /\ Filename(r) \in Seq(Symbols \cup Requests)
                             /\ Filename(r) \notin Traversal \cup {<<>>}
<1> DEFINE name == op[r].name
<1>1. name \in Seq(Seq(Symbols)) /\ name # <<>>
  BY OperationsAssumption DEF Path, Text
<1>2. name[Len(name)] \in Seq(Symbols)
  BY <1>1, EmptySeq, ElementOfSeq
<1>3. TrimSpace(name[Len(name)]) \in Seq(Symbols)
  BY <1>2, TrimBare DEF TrimSpace
<1>4. SanitizeFilename(name) \in Seq(Symbols) /\ Bare(SanitizeFilename(name), Dot)
  BY <1>3, TrimBare DEF SanitizeFilename
<1>5. <<r>> \in Seq(Symbols \cup Requests) /\ <<r>> # <<>> /\ Bare(<<r>>, Dot)
  BY StoreAssumption DEF Bare
<1>6. Filename(r) \in Seq(Symbols \cup Requests) /\ Filename(r) # <<>> /\ Bare(Filename(r), Dot)
  <2>1. SanitizeFilename(name) \in Seq(Symbols \cup Requests)
    BY <1>4, SeqMonotonic
  <2> QED
    BY <1>4, <1>5, <2>1 DEF Filename
<1>7. ~Bare(<<Dot>>, Dot) /\ ~Bare(<<Dot, Dot>>, Dot)
  BY DEF Bare
<1> QED
  BY <1>6, <1>7 DEF Traversal

\* What is known of an upload that passed its checks.
LEMMA UploadKey == ASSUME NEW r \in Requests, op[r] \in Operations, op[r].kind = "upload", Called(r)
                   PROVE  LET folder == CleanOptionalPath(op[r].path)
                          IN  /\ KeyOf(r) = [bucket |-> Bucket(op[r]), path |-> Append(folder, Filename(r))]
                              /\ Bucket(op[r]) \in Names
                              /\ folder \in Seq(Part(Symbols))
                              /\ \A i \in DOMAIN folder : folder[i] \notin Traversal
<1>1. op[r].path \in Path /\ ~op[r].all /\ op[r].bucket \in {Unset} \cup Names \cup BadBuckets
  BY OperationsAssumption
<1>2. ~CleanOptionalPathFails(op[r].path) /\ Bucket(op[r]) \notin BadBuckets
  BY <1>1 DEF Called, BadRequest
<1>3. Bucket(op[r]) \in Names
  BY <1>1, <1>2, StoreAssumption DEF Bucket
<1> QED
  BY <1>1, <1>2, <1>3, FolderClean DEF KeyOf

\* The parts of such a key, one by one.
LEMMA KeyParts == ASSUME NEW r \in Requests, op[r] \in Operations, op[r].kind = "upload", Called(r)
                  PROVE  LET folder == CleanOptionalPath(op[r].path)
                             path   == KeyOf(r).path
                         IN  /\ path \in Seq(Seq(Symbols \cup Requests))
                             /\ path = Append(folder, Filename(r))
                             /\ Len(path) = Len(folder) + 1 /\ Len(folder) \in Nat
                             /\ path[Len(path)] = Filename(r)
                             /\ \A i \in 1..Len(folder) :
                                  path[i] \in Part(Symbols \cup Requests) /\ path[i] \notin Traversal
<1> DEFINE folder == CleanOptionalPath(op[r].path)
           path   == KeyOf(r).path
<1>1. folder \in Seq(Part(Symbols)) /\ \A i \in DOMAIN folder : folder[i] \notin Traversal
  BY UploadKey
<1>2. path = Append(folder, Filename(r))
  BY UploadKey
<1>3. Part(Symbols) \subseteq Part(Symbols \cup Requests)
  BY SeqMonotonic DEF Part
<1>4. Part(Symbols) \subseteq Seq(Symbols \cup Requests)
  BY <1>3 DEF Part
<1>5. folder \in Seq(Seq(Symbols \cup Requests))
  BY <1>1, <1>4, SeqMonotonic
<1>6. /\ Len(folder) \in Nat /\ DOMAIN folder = 1..Len(folder)
      /\ \A i \in 1..Len(folder) : folder[i] \in Part(Symbols)
  BY <1>1, LenProperties, ElementOfSeq
<1>7. Filename(r) \in Seq(Symbols \cup Requests)
  BY FilenameSafe
<1> HIDE DEF folder, path
<1>8. /\ path \in Seq(Seq(Symbols \cup Requests))
      /\ Len(path) = Len(folder) + 1
      /\ path[Len(folder) + 1] = Filename(r)
      /\ \A i \in 1..Len(folder) : path[i] = folder[i]
  BY <1>2, <1>5, <1>6, <1>7
<1>9. path[Len(path)] = Filename(r)
  BY <1>8
<1>10. \A i \in 1..Len(folder) : path[i] \in Part(Symbols \cup Requests) /\ path[i] \notin Traversal
  BY <1>1, <1>3, <1>6, <1>8
<1> QED
  BY <1>2, <1>6, <1>8, <1>9, <1>10 DEF folder, path

\* An upload is directly in the folder and the bucket it asked for, and no part of
\* its path is empty or leads elsewhere.
THEOREM UploadsContained == Spec => []Contained
<1>1. WInv => Contained
  <2> SUFFICES ASSUME WInv, NEW r \in Requests, NEW k \in DOMAIN objects, Uploaded(k, r)
               PROVE  /\ k.bucket = Bucket(op[r])
                      /\ \E name \in {k.path[Len(k.path)]} :
                           k.path = Append(CleanOptionalPath(op[r].path), name)
                      /\ \A i \in DOMAIN k.path : k.path[i] \notin Traversal \cup {<<>>}
    BY DEF Contained
  <2>1. k = KeyOf(r) /\ op[r].kind = "upload" /\ Called(r) /\ op[r] \in Operations
    BY DEF WInv, WrittenInv, Inv, Books, Uploaded
  <2>2. k.bucket = Bucket(op[r])
    BY <2>1, UploadKey
  <2> DEFINE folder == CleanOptionalPath(op[r].path)
  <2>3. /\ k.path \in Seq(Seq(Symbols \cup Requests))
        /\ k.path = Append(folder, Filename(r))
        /\ Len(k.path) = Len(folder) + 1 /\ Len(folder) \in Nat
        /\ k.path[Len(k.path)] = Filename(r)
        /\ \A i \in 1..Len(folder) :
             k.path[i] \in Part(Symbols \cup Requests) /\ k.path[i] \notin Traversal
    BY <2>1, KeyParts
  <2> HIDE DEF folder
  <2>4. Filename(r) \notin Traversal \cup {<<>>}
    BY <2>1, FilenameSafe
  <2>5. ASSUME NEW i \in DOMAIN k.path PROVE k.path[i] \notin Traversal \cup {<<>>}
    <3>1. i \in 1..(Len(folder) + 1)
      BY <2>3
    <3>2. CASE i = Len(folder) + 1
      BY <2>3, <2>4, <3>2
    <3>3. CASE i # Len(folder) + 1
      <4>1. i \in 1..Len(folder)
        BY <2>3, <3>1, <3>3
      <4> QED
        BY <2>3, <4>1 DEF Part
    <3> QED
      BY <3>2, <3>3
  <2> QED
    BY <2>2, <2>3, <2>5 DEF folder
<1> QED
  BY InitWritten, NextWritten, <1>1, PTL DEF Spec

\* The path an upload reports is clean, and names the object, just when its file
\* name has no space at its ends.
THEOREM UploadsAddressable == Spec => []Addressable
<1>1. WInv => Addressable
  <2> SUFFICES ASSUME WInv, NEW r \in Requests, NEW k \in DOMAIN objects, Uploaded(k, r)
               PROVE  ~CleanPathFails(k.path) /\ CleanPath(k.path) = k.path
                        <=> ~Edged(k.path[Len(k.path)])
    BY DEF Addressable
  <2>1. k = KeyOf(r) /\ op[r].kind = "upload" /\ Called(r) /\ op[r] \in Operations
    BY DEF WInv, WrittenInv, Inv, Books, Uploaded
  <2> DEFINE folder == CleanOptionalPath(op[r].path)
             S      == Symbols \cup Requests
             path   == k.path
             name   == Filename(r)
  <2>2. /\ path \in Seq(Seq(S))
        /\ Len(path) = Len(folder) + 1 /\ Len(folder) \in Nat
        /\ path[Len(path)] = name
        /\ \A i \in 1..Len(folder) : path[i] \in Part(S) /\ path[i] \notin Traversal
    BY <2>1, KeyParts
  <2>3. name \in Seq(S) /\ name \notin Traversal \cup {<<>>}
    BY <2>1, FilenameSafe
  <2> HIDE DEF folder, S, path, name
  <2>4. name \in Part(S) <=> ~Edged(name)
    BY <2>3 DEF Part, Bare, Edged
  <2>5. Len(path) \in 1..Len(path) /\ \A i \in 1..Len(path) : i = Len(path) \/ i \in 1..Len(folder)
    BY <2>2
  <2>6. ASSUME name \in Part(S) PROVE ~CleanPathFails(path) /\ CleanPath(path) = path
    <3>1. \A i \in 1..Len(path) : path[i] \in Part(S) /\ path[i] \notin Traversal
      BY <2>2, <2>3, <2>5, <2>6
    <3>2. path \in Seq(Part(S))
      BY <2>2, <3>1
    <3>3. Parts(path) = path
      BY <3>2, PartsOfClean
    <3>4. path # <<>> /\ DOMAIN path = 1..Len(path)
      BY <2>2
    <3> QED
      BY <3>1, <3>3, <3>4 DEF CleanPathFails, CleanPath
  <2>7. ASSUME CleanPath(path) = path PROVE name \in Part(S)
    <3>1. path \in Seq(Part(S))
      BY <2>2, <2>7, PartsType DEF CleanPath
    <3> QED
      BY <2>2, <2>5, <3>1, ElementOfSeq
  <2> QED
    BY <2>2, <2>4, <2>6, <2>7 DEF path
<1> QED
  BY InitWritten, NextWritten, <1>1, PTL DEF Spec

-----------------------------------------------------------------------------
\* The shape of the state.

TInv == WInv /\ TypeOK

\* The conjuncts of TypeOK that a step may disturb, while no request changes.
LEMMA ShapeKeeps ==
    ASSUME TypeOK, UNCHANGED <<configured, op>>,
           pc' \in [Requests -> {"unsent", "received", "waiting", "buckets", "listing", "done", "cut"}],
           reply' \in [Requests -> {0, 200, 201, 400, 401, 405, 500, 502}],
           \A q \in Requests : reply'[q] \in Statuses(op[q].kind),
           call' \in [Requests -> {"none", "sent", "done", "refused"}],
           expired' \in [Requests -> BOOLEAN],
           entries' \in [Requests -> Seq([ok : BOOLEAN, keys : SUBSET Key])],
           \A q \in Requests : Len(entries'[q]) <= Len(Targets(op[q])),
           DOMAIN objects' \subseteq Key, objects' \in [DOMAIN objects' -> Requests \cup {Seed}],
           alone' \in [Requests -> BOOLEAN],
           seen' \in [Requests -> SUBSET SUBSET Key]
    PROVE  TypeOK'
<1>1. configured' \in BOOLEAN /\ op' \in [Requests -> Operations]
  BY DEF TypeOK
<1>2. \A q \in Requests : op'[q] = op[q]
  OBVIOUS
<1>3. \A q \in Requests : reply'[q] \in Statuses(op'[q].kind)
  BY <1>2
<1>4. \A q \in Requests : Len(entries'[q]) <= Len(Targets(op'[q]))
  BY <1>2
<1> QED
  BY <1>1, <1>3, <1>4 DEF TypeOK

\* A step that leaves the replies, the entries, the store and what was seen of it.
LEMMA QuietType ==
    ASSUME TypeOK, UNCHANGED <<configured, op, reply, entries, objects, seen>>,
           pc' \in [Requests -> {"unsent", "received", "waiting", "buckets", "listing", "done", "cut"}],
           call' \in [Requests -> {"none", "sent", "done", "refused"}],
           expired' \in [Requests -> BOOLEAN],
           alone' \in [Requests -> BOOLEAN]
    PROVE  TypeOK'
<1>1. /\ reply' \in [Requests -> {0, 200, 201, 400, 401, 405, 500, 502}]
      /\ \A q \in Requests : reply'[q] \in Statuses(op[q].kind)
  BY DEF TypeOK
<1>2. /\ entries' \in [Requests -> Seq([ok : BOOLEAN, keys : SUBSET Key])]
      /\ \A q \in Requests : Len(entries'[q]) <= Len(Targets(op[q]))
  BY DEF TypeOK
<1>3. DOMAIN objects' \subseteq Key /\ objects' \in [DOMAIN objects' -> Requests \cup {Seed}]
  BY DEF TypeOK
<1>4. seen' \in [Requests -> SUBSET SUBSET Key]
  BY DEF TypeOK
<1> QED
  BY <1>1, <1>2, <1>3, <1>4, ShapeKeeps

\* A handler replies with a status of its route.
LEMMA RespondType == ASSUME TypeOK, NEW r \in Requests,
                            NEW status \in {200, 201, 400, 401, 405, 500, 502},
                            status \in Statuses(op[r].kind), Respond(r, status)
                     PROVE  TypeOK'
<1>1. UNCHANGED <<configured, op, call, expired, entries, objects, alone, seen>>
  BY DEF Respond
<1>2. /\ pc' \in [Requests -> {"unsent", "received", "waiting", "buckets", "listing", "done", "cut"}]
      /\ reply' \in [Requests -> {0, 200, 201, 400, 401, 405, 500, 502}]
      /\ \A q \in Requests : reply'[q] \in Statuses(op[q].kind)
  BY DEF Respond, TypeOK
<1>3. /\ entries' \in [Requests -> Seq([ok : BOOLEAN, keys : SUBSET Key])]
      /\ \A q \in Requests : Len(entries'[q]) <= Len(Targets(op[q]))
  <2>1. entries' = entries
    BY <1>1
  <2>2. entries \in [Requests -> Seq([ok : BOOLEAN, keys : SUBSET Key])]
    BY DEF TypeOK
  <2>3. \A q \in Requests : Len(entries[q]) <= Len(Targets(op[q]))
    BY DEF TypeOK
  <2>4. entries' \in [Requests -> Seq([ok : BOOLEAN, keys : SUBSET Key])]
    BY <2>1, <2>2, Zenon
  <2>5. \A q \in Requests : Len(entries'[q]) <= Len(Targets(op[q]))
    <3> TAKE q \in Requests
    <3>1. entries'[q] = entries[q]
      BY <2>1
    <3> QED
      BY <2>3, <3>1
  <2> QED
    BY <2>4, <2>5, Zenon
<1>4. /\ DOMAIN objects' \subseteq Key /\ objects' \in [DOMAIN objects' -> Requests \cup {Seed}]
      /\ call' \in [Requests -> {"none", "sent", "done", "refused"}]
      /\ expired' \in [Requests -> BOOLEAN] /\ alone' \in [Requests -> BOOLEAN]
      /\ seen' \in [Requests -> SUBSET SUBSET Key]
  BY <1>1 DEF TypeOK
<1> QED
  BY <1>1, <1>2, <1>3, <1>4, ShapeKeeps

\* An entry of a listing is about objects there are.
LEMMA EnterType == ASSUME TypeOK, NEW r \in Requests, NEW entry, Pending(r), Enter(r, entry),
                          entry \in [ok : BOOLEAN, keys : SUBSET Key]
                   PROVE  TypeOK'
<1> DEFINE Entry == [ok : BOOLEAN, keys : SUBSET Key]
<1>1. /\ UNCHANGED <<configured, op, pc, reply, call, expired, objects, alone, seen>>
      /\ entries' = [entries EXCEPT ![r] = Append(entries[r], entry)]
  BY DEF Enter
<1>2. entries \in [Requests -> Seq(Entry)] /\ entry \in Entry
  BY DEF TypeOK
<1> HIDE DEF Entry
<1>3. /\ Append(entries[r], entry) \in Seq(Entry)
      /\ Len(Append(entries[r], entry)) = Len(entries[r]) + 1
      /\ Len(entries[r]) \in Nat
  BY <1>2
<1>4. Len(entries[r]) < Len(Targets(op[r])) /\ Len(Targets(op[r])) \in Nat
  BY TargetsType DEF Pending
<1>5. Len(Append(entries[r], entry)) <= Len(Targets(op[r]))
  BY <1>3, <1>4
<1>6. entries' \in [Requests -> Seq(Entry)]
  BY <1>1, <1>2, <1>3
<1>7. \A q \in Requests : Len(entries'[q]) <= Len(Targets(op[q]))
  <2>1. \A q \in Requests : Len(entries[q]) <= Len(Targets(op[q]))
    BY DEF TypeOK
  <2> QED
    BY <1>1, <1>2, <1>5, <2>1
<1>8. /\ pc' \in [Requests -> {"unsent", "received", "waiting", "buckets", "listing", "done", "cut"}]
      /\ reply' \in [Requests -> {0, 200, 201, 400, 401, 405, 500, 502}]
      /\ \A q \in Requests : reply'[q] \in Statuses(op[q].kind)
      /\ call' \in [Requests -> {"none", "sent", "done", "refused"}]
  BY <1>1 DEF TypeOK
<1>9. /\ DOMAIN objects' \subseteq Key /\ objects' \in [DOMAIN objects' -> Requests \cup {Seed}]
      /\ expired' \in [Requests -> BOOLEAN] /\ alone' \in [Requests -> BOOLEAN]
      /\ seen' \in [Requests -> SUBSET SUBSET Key]
  BY <1>1 DEF TypeOK
<1> QED
  BY <1>1, <1>6, <1>7, <1>8, <1>9, ShapeKeeps DEF Entry

LEMMA HandlerType == ASSUME TInv, NEW r \in Requests, Handler(r)
                     PROVE  TypeOK'
<1> DEFINE kind == op[r].kind
<1>1. op[r] \in Operations /\ kind \in Kinds /\ (op[r].all => kind = "list")
  BY KindsOnly DEF TInv, WInv, Inv, Books
<1>2. {400, 401, 405, 500, 502} \subseteq Statuses(kind)
  BY DEF Statuses
<1>3. ASSUME Refusal(r) PROVE TypeOK'
  BY <1>2, <1>3, RespondType DEF TInv, Refusal, Unauthorized, WrongMethod, NotConfigured, Malformed,
                                 Reject, NotBuilt, GiveUp, NoBuckets
<1>4. ASSUME Answered(r) PROVE TypeOK'
  <2>1. kind = "upload" => 201 \in Statuses(kind)
    BY DEF Statuses
  <2>2. kind # "upload" => 200 \in Statuses(kind)
    BY DEF Statuses
  <2> HIDE DEF kind
  <2>3. \/ Respond(r, 502)
        \/ kind = "upload" /\ Respond(r, 201)
        \/ kind # "upload" /\ Respond(r, 200)
    BY <1>4 DEF Answered, kind
  <2> QED
    BY <1>2, <2>1, <2>2, <2>3, RespondType DEF TInv, kind
<1>5. ASSUME EndListing(r) PROVE TypeOK'
  <2>1. kind = "list"
    BY <1>5 DEF EndListing, TInv, WInv, Inv, Books
  <2>2. 200 \in Statuses(kind)
    BY <2>1 DEF Statuses
  <2> QED
    BY <1>5, <2>2, RespondType DEF EndListing, TInv
<1>6. ASSUME Send(r) PROVE TypeOK'
  <2>1. alone' \in [Requests -> BOOLEAN]
    BY <1>6 DEF Send, TInv, WInv, Inv, Books
  <2>2. /\ call' \in [Requests -> {"none", "sent", "done", "refused"}]
        /\ pc' \in [Requests -> {"unsent", "received", "waiting", "buckets", "listing", "done", "cut"}]
        /\ UNCHANGED <<configured, op, reply, expired, entries, objects, seen>>
    BY <1>6 DEF Send, TInv, TypeOK
  <2>3. expired' \in [Requests -> BOOLEAN]
    BY <2>2 DEF TInv, TypeOK
  <2> QED
    BY <2>1, <2>2, <2>3, QuietType DEF TInv
<1>7. ASSUME BeginListing(r) \/ ListBuckets(r) PROVE TypeOK'
  <2>1. /\ UNCHANGED <<configured, op, reply, call, expired, entries, objects, alone>>
        /\ pc' = [pc EXCEPT ![r] = "buckets"] \/ pc' = [pc EXCEPT ![r] = "listing"]
        /\ seen' = [seen EXCEPT ![r] = {DOMAIN objects}] \/ seen' = seen
    BY <1>7 DEF BeginListing, ListBuckets
  <2>2. seen' \in [Requests -> SUBSET SUBSET Key]
    <3>1. {DOMAIN objects} \in SUBSET SUBSET Key /\ seen \in [Requests -> SUBSET SUBSET Key]
      BY DEF TInv, TypeOK
    <3> DEFINE Stores == SUBSET SUBSET Key
               now    == {DOMAIN objects}
    <3> HIDE DEF Stores, now
    <3>2. now \in Stores /\ seen \in [Requests -> Stores]
      BY <3>1 DEF Stores, now
    <3>3. seen' = [seen EXCEPT ![r] = now] \/ seen' = seen
      BY <2>1 DEF now
    <3>4. seen' \in [Requests -> Stores]
      BY <3>2, <3>3
    <3> QED
      BY <3>4 DEF Stores
  <2>3. pc' \in [Requests -> {"unsent", "received", "waiting", "buckets", "listing", "done", "cut"}]
    <3>1. pc \in [Requests -> {"unsent", "received", "waiting", "buckets", "listing", "done", "cut"}]
      BY DEF TInv, TypeOK
    <3> QED
      BY <2>1, <3>1
  <2>4. /\ entries' \in [Requests -> Seq([ok : BOOLEAN, keys : SUBSET Key])]
        /\ \A q \in Requests : Len(entries'[q]) <= Len(Targets(op[q]))
    BY <2>1 DEF TInv, TypeOK
  <2>5. /\ reply' \in [Requests -> {0, 200, 201, 400, 401, 405, 500, 502}]
        /\ \A q \in Requests : reply'[q] \in Statuses(op[q].kind)
        /\ DOMAIN objects' \subseteq Key /\ objects' \in [DOMAIN objects' -> Requests \cup {Seed}]
        /\ call' \in [Requests -> {"none", "sent", "done", "refused"}]
        /\ expired' \in [Requests -> BOOLEAN] /\ alone' \in [Requests -> BOOLEAN]
    BY <2>1 DEF TInv, TypeOK
  <2> QED
    BY <2>1, <2>2, <2>3, <2>4, <2>5, ShapeKeeps DEF TInv
<1>8. ASSUME NEW keys, keys \subseteq DOMAIN objects, NEW ok \in BOOLEAN, Pending(r),
             Enter(r, [ok |-> ok, keys |-> keys])
      PROVE  TypeOK'
  <2>1. [ok |-> ok, keys |-> keys] \in [ok : BOOLEAN, keys : SUBSET Key]
    BY <1>8 DEF TInv, TypeOK
  <2> QED
    BY <1>8, <2>1, EnterType DEF TInv
<1>9. ASSUME ListBucketFiles(r) PROVE TypeOK'
  BY <1>8, <1>9 DEF ListBucketFiles, Under
<1>10. ASSUME LoseBody(r) PROVE TypeOK'
  BY <1>8, <1>10 DEF LoseBody
<1>11. ASSUME NoFiles(r) PROVE TypeOK'
  <2>1. CASE op[r].all
    BY <1>8, <1>11, <2>1 DEF NoFiles
  <2>2. CASE ~op[r].all
    BY <1>2, <1>11, <2>2, RespondType DEF NoFiles, TInv
  <2> QED
    BY <2>1, <2>2
<1> QED
  BY <1>3, <1>4, <1>5, <1>6, <1>7, <1>9, <1>10, <1>11 DEF Handler, Refusal

\* The store keeps objects under keys.
LEMMA StoreType == ASSUME TInv, NEW r \in Requests, External(r)
                   PROVE  TypeOK'
<1>1. call[r] = "sent" /\ op[r] \in Operations /\ Called(r)
  BY DEF External, Store, Remove, Refuse, Settle, TInv, WInv, Inv, Books
<1>2. PICK outcome, store : outcome \in {"done", "refused"} /\ Settle(r, outcome, store)
  BY DEF External, Store, Remove, Refuse
<1>3. /\ call' = [call EXCEPT ![r] = outcome] /\ objects' = store
      /\ UNCHANGED <<configured, op, pc, reply, expired, entries, alone>>
      /\ seen' = [s \in Requests |->
           IF pc[s] \in {"buckets", "listing"} /\ ~expired[s]
           THEN seen[s] \cup {DOMAIN store} ELSE seen[s]]
  BY <1>2 DEF Settle
<1>4. DOMAIN objects' \subseteq Key /\ objects' \in [DOMAIN objects' -> Requests \cup {Seed}]
  <2>1. CASE Store(r)
    <3>1. KeyOf(r) \in Key
      <4>1. op[r].kind = "upload"
        BY <2>1 DEF Store
      <4>2. /\ KeyOf(r) = [bucket |-> Bucket(op[r]),
                           path   |-> Append(CleanOptionalPath(op[r].path), Filename(r))]
            /\ Bucket(op[r]) \in Names
        BY <1>1, <4>1, UploadKey
      <4>3. KeyOf(r).path \in Seq(Seq(Symbols \cup Requests))
        BY <1>1, <4>1, KeyParts
      <4> QED
        BY <4>2, <4>3 DEF Key
    <3>2. objects' = [k \in DOMAIN objects \cup {KeyOf(r)} |-> IF k = KeyOf(r) THEN r ELSE objects[k]]
      BY <2>1 DEF Store, Settle
    <3> QED
      BY <3>1, <3>2 DEF TInv, TypeOK
  <2>2. CASE Remove(r)
    BY <2>2 DEF Remove, Settle, TInv, TypeOK
  <2>3. CASE Refuse(r)
    BY <2>3 DEF Refuse, Settle, TInv, TypeOK
  <2> QED
    BY <2>1, <2>2, <2>3 DEF External
<1>5. seen' \in [Requests -> SUBSET SUBSET Key]
  <2>1. DOMAIN store \in SUBSET Key
    BY <1>3, <1>4
  <2>2. \A s \in Requests : seen[s] \in SUBSET SUBSET Key /\ seen[s] \cup {DOMAIN store} \in SUBSET SUBSET Key
    BY <2>1 DEF TInv, TypeOK
  <2> QED
    BY <1>3, <2>2
<1>6. /\ entries' \in [Requests -> Seq([ok : BOOLEAN, keys : SUBSET Key])]
      /\ \A q \in Requests : Len(entries'[q]) <= Len(Targets(op[q]))
  BY <1>3 DEF TInv, TypeOK
<1>7. /\ pc' \in [Requests -> {"unsent", "received", "waiting", "buckets", "listing", "done", "cut"}]
      /\ reply' \in [Requests -> {0, 200, 201, 400, 401, 405, 500, 502}]
      /\ \A q \in Requests : reply'[q] \in Statuses(op[q].kind)
      /\ call' \in [Requests -> {"none", "sent", "done", "refused"}]
      /\ expired' \in [Requests -> BOOLEAN] /\ alone' \in [Requests -> BOOLEAN]
  BY <1>2, <1>3 DEF TInv, TypeOK
<1> QED
  BY <1>3, <1>4, <1>5, <1>6, <1>7, ShapeKeeps DEF TInv

LEMMA InitTyped == Init => TInv
<1> SUFFICES ASSUME Init PROVE TInv
  OBVIOUS
<1>1. \A r \in Requests : entries[r] = <<>> /\ reply[r] = 0
  BY DEF Init
<1>2. entries \in [Requests -> Seq([ok : BOOLEAN, keys : SUBSET Key])]
  BY EmptySeq DEF Init
<1>3. \A r \in Requests : Len(entries[r]) <= Len(Targets(op[r]))
  BY <1>1, TargetsType
<1>4. \A r \in Requests : reply[r] \in Statuses(op[r].kind)
  BY <1>1 DEF Statuses
<1>5. DOMAIN objects \subseteq Key /\ objects \in [DOMAIN objects -> Requests \cup {Seed}]
  BY StoreAssumption DEF Init
<1>6. seen \in [Requests -> SUBSET SUBSET Key]
  BY DEF Init
<1> QED
  BY <1>2, <1>3, <1>4, <1>5, <1>6, InitWritten DEF Init, TInv, TypeOK

LEMMA NextTyped == TInv /\ [Next]_vars => TInv'
<1> SUFFICES ASSUME TInv, [Next]_vars PROVE TInv'
  OBVIOUS
<1>1. WInv'
  BY NextWritten DEF TInv
<1>2. ASSUME \/ \E r \in Requests : Receive(r) \/ Expire(r)
             \/ Crash \/ UNCHANGED vars
      PROVE  TypeOK'
  <2>1. /\ UNCHANGED <<configured, op, reply, call, entries, objects, alone, seen>>
        /\ pc' \in [Requests -> {"unsent", "received", "waiting", "buckets", "listing", "done", "cut"}]
        /\ expired' \in [Requests -> BOOLEAN]
    <3>1. ASSUME NEW r \in Requests, Receive(r) \/ Expire(r)
          PROVE  /\ UNCHANGED <<configured, op, reply, call, entries, objects, alone, seen>>
                 /\ pc' \in [Requests -> {"unsent", "received", "waiting", "buckets", "listing", "done", "cut"}]
                 /\ expired' \in [Requests -> BOOLEAN]
      <4>1. /\ pc \in [Requests -> {"unsent", "received", "waiting", "buckets", "listing", "done", "cut"}]
            /\ expired \in [Requests -> BOOLEAN]
        BY DEF TInv, TypeOK
      <4>2. CASE Receive(r)
        BY <4>1, <4>2 DEF Receive
      <4>3. CASE Expire(r)
        BY <4>1, <4>3 DEF Expire
      <4> QED
        BY <3>1, <4>2, <4>3
    <3>2. CASE Crash
      BY <3>2 DEF Crash, TInv, TypeOK
    <3>3. CASE UNCHANGED vars
      BY <3>3 DEF vars, TInv, TypeOK
    <3> QED
      BY <1>2, <3>1, <3>2, <3>3
  <2>2. call' \in [Requests -> {"none", "sent", "done", "refused"}] /\ alone' \in [Requests -> BOOLEAN]
    BY <2>1 DEF TInv, TypeOK
  <2> QED
    BY <2>1, <2>2, QuietType DEF TInv
<1> QED
  BY <1>1, <1>2, HandlerType, StoreType DEF TInv, Next

\* The state keeps its shape: each route keeps to its own statuses, a listing to
\* its buckets, and the store to keys.
THEOREM TypeCorrect == Spec => []TypeOK
<1>1. TInv => TypeOK
  BY DEF TInv
<1> QED
  BY InitTyped, NextTyped, <1>1, PTL DEF Spec
=============================================================================
