------------------------------- MODULE Event -------------------------------
(***************************************************************************)
(* One PSC_Event (event.c) and the code that uses it on its thread: the    *)
(* list of handlers, the "handling" cursor and the raises in progress.     *)
(* Outside of a raise, and inside any handler a raise calls, the user may  *)
(* register and unregister handlers, raise the event again, or destroy it. *)
(*                                                                         *)
(* An entry is named by its handler (callback, receiver and identifier):   *)
(* PSC_Event_register never enters a handler twice.  The linked list is    *)
(* the sequence of its entries.                                            *)
(***************************************************************************)
EXTENDS Naturals, Sequences

CONSTANTS Handlers,  \* the handlers ever registered
          IdOf,      \* the identifier each is registered for
          NoEntry,
          MaxDepth   \* bound: how deep raises of this event nest

EventAssumption ==
    /\ NoEntry \notin Handlers
    /\ MaxDepth \in Nat \ {0}
    /\ DOMAIN IdOf = Handlers

VARIABLES entries,   \* the list first .. last
          handling,  \* PSC_Event.handling: the entry to go on with
          alive,     \* FALSE once PSC_Event_destroyStatic was called
          raises     \* the raises in progress, outermost first

evars == <<entries, handling, alive, raises>>

Entries(list) == {list[i] : i \in DOMAIN list}
Registered == Entries(entries)
Ids == {IdOf[h] : h \in Handlers}

PosOf(list, e) == CHOOSE i \in DOMAIN list : list[i] = e

\* entry->next.
NextOf(list, e) ==
    IF PosOf(list, e) = Len(list) THEN NoEntry ELSE list[PosOf(list, e) + 1]

\* parent->next = entry->next, or self->first = entry->next.
Unlink(list, e) ==
    [i \in 1 .. Len(list) - 1 |-> IF i < PosOf(list, e) THEN list[i] ELSE list[i + 1]]

Depth == Len(raises)
Top == raises[Depth]

\* Control is with user code: no raise is running, or one is in a handler.
UserCode == raises # <<>> => Top.calling

PSC_Event_initStatic == entries = <<>> /\ handling = NoEntry /\ alive = TRUE

EventInit == PSC_Event_initStatic /\ raises = <<>>

\* A handler that is already in the list is not entered again.
PSC_Event_register(h) ==
    /\ UserCode /\ alive
    /\ h \notin Registered
    /\ entries' = Append(entries, h)
    /\ UNCHANGED <<handling, alive, raises>>

\* History: an unregistered handler is no longer due in any raise, and what
\* may be called later is another registration.
Forget(h) == [k \in DOMAIN raises |->
                 [raises[k] EXCEPT !.due = @ \ {h}, !.called = @ \ {h}]]

\* Mutant: the cursor is left on the entry that is freed.
PSC_Event_unregister_stale(h) ==
    /\ UserCode /\ alive
    /\ h \in Registered
    /\ UNCHANGED handling
    /\ entries' = Unlink(entries, h)
    /\ raises' = Forget(h)
    /\ UNCHANGED alive

\* Mutant: the cursor is dropped together with the entry.
PSC_Event_unregister_stop(h) ==
    /\ UserCode /\ alive
    /\ h \in Registered
    /\ handling' = IF handling = h THEN NoEntry ELSE handling
    /\ entries' = Unlink(entries, h)
    /\ raises' = Forget(h)
    /\ UNCHANGED alive

PSC_Event_unregister(h) ==
    /\ UserCode /\ alive
    /\ h \in Registered
    /\ handling' = IF handling = h THEN NextOf(entries, h) ELSE handling
    /\ entries' = Unlink(entries, h)
    /\ raises' = Forget(h)
    /\ UNCHANGED alive

\* PSC_Event_raise is called: start with the first entry.
PSC_Event_raise(id) ==
    /\ UserCode /\ alive
    /\ Depth < MaxDepth
    /\ raises' = Append([k \in DOMAIN raises |-> [raises[k] EXCEPT !.nested = TRUE]],
          [id |-> id, calling |-> FALSE,
           entry |-> IF entries = <<>> THEN NoEntry ELSE entries[1],
           \* History: whether a handler raised the event again, the handlers to
           \* be called, and the ones that were.
           nested |-> FALSE,
           due |-> {h \in Registered : IdOf[h] = id},
           called |-> {}])
    /\ UNCHANGED <<entries, handling, alive>>

\* The loop body up to the call of the handler, or the whole of it when the
\* identifier does not match.
Raise_entry ==
    /\ raises # <<>> /\ ~Top.calling /\ Top.entry # NoEntry
    /\ handling' = NextOf(entries, Top.entry)
    /\ raises' = [raises EXCEPT ![Depth] =
          IF IdOf[Top.entry] = Top.id
          THEN [Top EXCEPT !.calling = TRUE, !.called = Top.called \cup {Top.entry}]
          ELSE [Top EXCEPT !.entry = NextOf(entries, Top.entry)]]
    /\ UNCHANGED <<entries, alive>>

\* The handler returns: "entry = self->handling".
Raise_return ==
    /\ raises # <<>> /\ Top.calling
    /\ raises' = [raises EXCEPT ![Depth].calling = FALSE, ![Depth].entry = handling]
    /\ UNCHANGED <<entries, handling, alive>>

\* The list is done: PSC_Event_raise returns.
Raise_done ==
    /\ raises # <<>> /\ ~Top.calling /\ Top.entry = NoEntry
    /\ raises' = SubSeq(raises, 1, Depth - 1)
    /\ UNCHANGED <<entries, handling, alive>>

\* All entries are freed and the struct is cleared, possibly from a handler.
PSC_Event_destroyStatic ==
    /\ UserCode /\ alive
    /\ entries' = <<>> /\ handling' = NoEntry /\ alive' = FALSE
    /\ raises' = [k \in DOMAIN raises |-> [raises[k] EXCEPT !.due = {}, !.called = {}]]

EventNext == \/ \E h \in Handlers : PSC_Event_register(h) \/ PSC_Event_unregister(h)
             \/ \E id \in Ids : PSC_Event_raise(id)
             \/ Raise_entry \/ Raise_return \/ Raise_done
             \/ PSC_Event_destroyStatic

EventSpec == EventInit /\ [][EventNext]_evars

-----------------------------------------------------------------------------
(* The inductive invariant *)

Raises == [id : Ids, calling : BOOLEAN, entry : Handlers \cup {NoEntry}, nested : BOOLEAN,
           due : SUBSET Handlers, called : SUBSET Handlers]

EventTypeOK ==
    /\ entries \in Seq(Handlers) /\ handling \in Handlers \cup {NoEntry}
    /\ alive \in BOOLEAN /\ raises \in Seq(Raises)

\* Where the innermost raise goes on, and the entries from some place on.
Cursor == IF Top.calling THEN handling ELSE Top.entry
Ahead(list, e) ==
    IF e = NoEntry THEN {} ELSE {list[i] : i \in {k \in DOMAIN list : k >= PosOf(list, e)}}

Distinct(list) == \A i, k \in DOMAIN list : list[i] = list[k] => i = k

\* The cursor is on the list, also between raises.
HandlingListed == handling # NoEntry => handling \in Registered

\* A raise that is not the innermost is in a handler, which raised again.
OuterCalling == \A k \in 1 .. Depth - 1 : raises[k].calling /\ raises[k].nested

\* What was called and is not forgotten is still registered.
CalledListed == \A k \in DOMAIN raises : raises[k].called \subseteq Registered

\* Only handlers for its identifier are due in a raise.
DueForId == \A k \in DOMAIN raises : \A h \in raises[k].due : IdOf[h] = raises[k].id

\* The innermost raise has called nothing it will still come to, and, unless a
\* handler raised again, will come to all that is due and was not called.  When
\* it is about to end it has left the cursor at null for the outer ones.
TopOnItsWay == raises # <<>> =>
    /\ Cursor # NoEntry => Cursor \in Registered
    /\ ~Top.calling /\ Top.entry = NoEntry => handling = NoEntry
    /\ Top.called \cap Ahead(entries, Cursor) = {}
    /\ ~Top.nested => Top.due \ Top.called \subseteq Ahead(entries, Cursor)

EventInv == /\ EventTypeOK /\ Distinct(entries) /\ HandlingListed /\ OuterCalling
            /\ CalledListed /\ DueForId /\ TopOnItsWay

-----------------------------------------------------------------------------
(* Properties. *)

\* The next entry PSC_Event_raise looks at was not freed meanwhile, whatever
\* the handlers it called registered, unregistered, raised or destroyed.
NoFreedEntry ==
    /\ handling # NoEntry /\ raises # <<>> => handling \in Registered
    /\ raises # <<>> /\ ~Top.calling /\ Top.entry # NoEntry => Top.entry \in Registered

\* No raise calls the same registration of a handler twice.
CalledOnce ==
    raises # <<>> /\ ~Top.calling /\ Top.entry # NoEntry => Top.entry \notin Top.called

\* Whatever its handlers register, unregister and raise, a raise never goes on
\* with an entry that was freed, and calls none twice.
RaiseSafe == NoFreedEntry /\ CalledOnce

\* When PSC_Event_raise returns, every handler for its identifier that was
\* registered all the while has been called, whatever the handlers registered,
\* unregistered or destroyed: "When an event is raised, all subscribers are
\* called directly" (event.h).  Unless one of them raised the same event: the
\* inner raise leaves the cursor at null, and the outer one ends with it.
RaiseReachesAll ==
    raises # <<>> /\ ~Top.calling /\ Top.entry = NoEntry /\ ~Top.nested
        => Top.due \subseteq Top.called
=============================================================================
