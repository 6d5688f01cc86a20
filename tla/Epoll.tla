------------------------------- MODULE Epoll -------------------------------
(***************************************************************************)
(* genshin_compat.c: epoll on top of poll.  A wait copies the registrations *)
(* under nx_epoll_mutex, polls the copy without it, and delivers what is    *)
(* still registered; a registration checks its descriptor before it takes   *)
(* the mutex; close_fake forgets a number in every set and then closes it.  *)
(* One set is modelled, whose number is used again after a close.  Which    *)
(* conditions are polled, and the clock, are left out.                      *)
(***************************************************************************)
EXTENDS Naturals, FiniteSets

CONSTANTS
  EThreads, EFds,
  ESlots,      \* NX_EPOLL_ITEMS, as 1 .. n
  MaxObjects,  \* bound: descriptions opened in all
  MaxStamp     \* bound: nx_epoll_generation

VARIABLES
  names,   \* names[f]: the description that number f stands for, 0 if it is closed
  opens,   \* descriptions opened so far
  set,     \* generation of the set, 0 if it is closed
  items,   \* its registrations
  stamp,   \* nx_epoll_generation
  call     \* the call that each thread is in

epollVars == <<names, opens, set, items, stamp, call>>

FreeItem == [used |-> FALSE, fd |-> 0, gen |-> 0, disabled |-> FALSE, oneshot |-> FALSE,
         meant |-> 0, raced |-> FALSE]
NoCall == [at |-> "idle", fd |-> 0, meant |-> 0, set |-> 0, copy |-> {}, seen |-> {}]

EpollInit ==
  /\ names = [f \in EFds |-> 0] /\ opens = 0
  /\ set = 0 /\ items = [s \in ESlots |-> FreeItem] /\ stamp = 0
  /\ call = [t \in EThreads |-> NoCall]

NotCalling(t)   == call[t].at = "idle"
Becomes(t, c) == call' = [call EXCEPT ![t] = c]
EpollReturns(t) == Becomes(t, NoCall)

OpenFd(t) ==
  /\ NotCalling(t) /\ opens < MaxObjects
  /\ \E f \in EFds : names[f] = 0 /\ names' = [names EXCEPT ![f] = opens + 1]
  /\ opens' = opens + 1 /\ UNCHANGED <<set, items, stamp, call>>

\* nx_epoll_forget_fd, which close_fake calls before it closes the number.
Forgotten(f) == [s \in ESlots |-> IF items[s].used /\ items[s].fd = f THEN FreeItem ELSE items[s]]
Closing(f) == \E t \in EThreads : call[t].at = "closing" /\ call[t].fd = f

\* A mutant of the next definition: the number is closed first.
ForgetNothing(t) ==
  /\ NotCalling(t) /\ UNCHANGED <<names, opens, set, items, stamp>>
  /\ \E f \in EFds : names[f] # 0 /\ ~Closing(f)
                      /\ Becomes(t, [NoCall EXCEPT !.at = "closing", !.fd = f])
PruneClosed(t) ==
  /\ NotCalling(t) /\ UNCHANGED <<names, opens, set, stamp>>
  /\ \E f \in EFds : /\ names[f] # 0 /\ ~Closing(f) /\ items' = Forgotten(f)
                      /\ Becomes(t, [NoCall EXCEPT !.at = "closing", !.fd = f])
CloseNumber(t) ==
  /\ call[t].at = "closing" /\ names' = [names EXCEPT ![call[t].fd] = 0]
  /\ EpollReturns(t) /\ UNCHANGED <<opens, set, items, stamp>>

\* nx_epoll_create and nx_epoll_close
CreateSet(t) ==
  /\ NotCalling(t) /\ set = 0 /\ stamp < MaxStamp
  /\ stamp' = stamp + 1 /\ set' = stamp + 1 /\ items' = [s \in ESlots |-> FreeItem]
  /\ UNCHANGED <<names, opens, call>>
CloseSet(t) ==
  /\ NotCalling(t) /\ set # 0 /\ set' = 0 /\ items' = [s \in ESlots |-> FreeItem]
  /\ UNCHANGED <<names, opens, stamp, call>>

-----------------------------------------------------------------------------
\* nx_epoll_ctl: epoll_target_valid, and then the registry under the mutex.
CtlValid(t) ==
  /\ NotCalling(t)
  /\ \E f \in EFds : names[f] # 0
       /\ Becomes(t, [NoCall EXCEPT !.at = "ctl", !.fd = f, !.meant = names[f]])
  /\ UNCHANGED <<names, opens, set, items, stamp>>

Found(f) == {s \in ESlots : items[s].used /\ items[s].fd = f}
FirstFreeItem == {s \in ESlots : ~items[s].used /\ \A r \in 1 .. s - 1 : items[r].used}

RegisterItem(t, s, once) ==
  /\ stamp < MaxStamp /\ stamp' = stamp + 1
  /\ items' = [items EXCEPT ![s] =
       [used |-> TRUE, fd |-> call[t].fd, gen |-> stamp + 1, disabled |-> FALSE,
        oneshot |-> once, meant |-> call[t].meant,
        raced |-> names[call[t].fd] # call[t].meant \/ Closing(call[t].fd)]]

CtlApply(t) ==
  /\ call[t].at = "ctl"
  /\ \/ /\ set # 0 /\ Found(call[t].fd) = {}                         \* ADD
        /\ \E s \in FirstFreeItem, once \in BOOLEAN : RegisterItem(t, s, once)
     \/ /\ set # 0
        /\ \E s \in Found(call[t].fd), once \in BOOLEAN : RegisterItem(t, s, once)  \* MOD
     \/ /\ set # 0 /\ UNCHANGED stamp                                \* DEL
        /\ \E s \in Found(call[t].fd) : items' = [items EXCEPT ![s] = FreeItem]
     \/ UNCHANGED <<items, stamp>>                                   \* an error
  /\ EpollReturns(t) /\ UNCHANGED <<names, opens, set>>

-----------------------------------------------------------------------------
\* nx_epoll_wait, one turn of its loop.
Copy(t) ==
  /\ NotCalling(t) \/ call[t].at = "wait"
  /\ IF set = 0 THEN EpollReturns(t)
     ELSE Becomes(t, [NoCall EXCEPT !.at = "poll", !.set = set,
            !.copy = {<<s, items[s].gen, items[s].fd>> :
                        s \in {r \in ESlots : items[r].used /\ ~items[r].disabled}}])
  /\ UNCHANGED <<names, opens, set, items, stamp>>

\* What poll reports: the description behind each ready number, 0 for POLLNVAL.
\* A closed number may instead fail the whole batch with EBADF.
Poll(t) ==
  /\ call[t].at = "poll"
  /\ \E ready \in SUBSET call[t].copy :
       \/ /\ \A c \in call[t].copy : names[c[3]] = 0 => c \in ready
          /\ Becomes(t, [call[t] EXCEPT !.at = "deliver",
                          !.seen = {<<c[1], c[2], names[c[3]]>> : c \in ready}])
       \/ /\ ready = {} /\ \E c \in call[t].copy : names[c[3]] = 0
          /\ Becomes(t, [call[t] EXCEPT !.at = "ebadf"])
  /\ UNCHANGED <<names, opens, set, items, stamp>>

Current(c) == items[c[1]].used /\ items[c[1]].gen = c[2]

\* EBADF is a notification if the registry shows that a copied item changed.
Ebadf(t) ==
  /\ call[t].at = "ebadf"
  /\ IF set = call[t].set /\ \E c \in call[t].copy : ~Current(c)
       THEN Becomes(t, [NoCall EXCEPT !.at = "wait"])
       ELSE EpollReturns(t)
  /\ UNCHANGED <<names, opens, set, items, stamp>>

Deliver(t) ==
  /\ call[t].at = "deliver"
  /\ IF set # call[t].set THEN EpollReturns(t) /\ UNCHANGED items
     ELSE LET live == {c \in call[t].seen : Current(c)} IN
          /\ items' = [s \in ESlots |->
               IF \E c \in live : c[1] = s /\ c[3] = 0 THEN FreeItem
               ELSE IF items[s].oneshot /\ \E c \in live : c[1] = s
                 THEN [items[s] EXCEPT !.disabled = TRUE]
               ELSE items[s]]
          /\ IF \E c \in live : c[3] # 0 THEN EpollReturns(t)
             ELSE EpollReturns(t) \/ Becomes(t, [NoCall EXCEPT !.at = "wait"])
  /\ UNCHANGED <<names, opens, set, stamp>>

EpollNext == \E t \in EThreads :
  \/ OpenFd(t) \/ PruneClosed(t) \/ CloseNumber(t) \/ CreateSet(t) \/ CloseSet(t)
  \/ CtlValid(t) \/ CtlApply(t) \/ Copy(t) \/ Poll(t) \/ Ebadf(t) \/ Deliver(t)

EpollSpec == EpollInit /\ [][EpollNext]_epollVars

(* A registration stands for the description that its number named when the  *)
(* caller registered it, so an event is delivered with the data of the       *)
(* description that was ready, and a wait on an open set does not fail with  *)
(* EBADF, whatever is closed, opened and registered again meanwhile; except  *)
(* a registration that raced with the close of its number                    *)
(* (nx_epoll_wait, nx_epoll_forget_fd).                                      *)
EventsOfTheirFd ==
  /\ \A s \in ESlots : items[s].used /\ ~items[s].raced => names[items[s].fd] = items[s].meant
  /\ \A t \in EThreads : call[t].at = "deliver" /\ set = call[t].set =>
       \A c \in call[t].seen : Current(c) /\ ~items[c[1]].raced => c[3] = items[c[1]].meant
  /\ \A t \in EThreads : call[t].at = "ebadf" /\ set = call[t].set =>
       \E c \in call[t].copy : ~Current(c) \/ items[c[1]].raced
=============================================================================
