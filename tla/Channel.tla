------------------------------- MODULE Channel -------------------------------
(***************************************************************************)
(* A Channel (src/Channel.cc, include/Channel.h) and what the EPollPoller  *)
(* and the kernel's epoll instance hold of it: a record that the Channel's *)
(* setters and EPollPoller's updateChannel and removeChannel transform.    *)
(***************************************************************************)

Events == {"in", "out"} \* kReadEvent, kWriteEvent; kNoneEvent is {}

ChannelRecord ==
  [events: SUBSET Events,     \* events_
   index: {"kNew", "kAdded", "kDeleted"},
   listed: BOOLEAN,           \* is the fd a key of channels_?
   registered: BOOLEAN,       \* is the fd in the epoll interest list,
   mask: SUBSET Events,       \*   and for which events?
   fatal: BOOLEAN]            \* has LOG_FATAL ended the process?

NewChannel == [events |-> {}, index |-> "kNew", listed |-> FALSE,
               registered |-> FALSE, mask |-> {}, fatal |-> FALSE]
-----------------------------------------------------------------------------
\* EPollPoller::update: epoll_ctl fails, and the process ends, when it adds an
\* fd that is registered or modifies one that is not.
EpollAdd(ch) ==
  [ch EXCEPT !.registered = TRUE, !.mask = ch.events, !.fatal = @ \/ ch.registered]

EpollMod(ch) ==
  [ch EXCEPT !.mask = ch.events, !.fatal = @ \/ ~ch.registered]

EpollDel(ch) ==
  [ch EXCEPT !.registered = FALSE, !.mask = {}]

\* Mutant: the index keeps saying kAdded after EPOLL_CTL_DEL.
UpdateChannelKeepsIndex(ch) ==
  IF ch.index # "kAdded"
    THEN EpollAdd([ch EXCEPT !.listed = TRUE, !.index = "kAdded"])
    ELSE IF ch.events = {} THEN EpollDel(ch) ELSE EpollMod(ch)

\* Mutant: a channel without events is modified, not deleted.
UpdateChannelNeverDeletes(ch) ==
  IF ch.index # "kAdded"
    THEN EpollAdd([ch EXCEPT !.listed = TRUE, !.index = "kAdded"])
    ELSE EpollMod(ch)

\* EPollPoller::updateChannel
UpdateChannel(ch) ==
  IF ch.index # "kAdded"
    THEN EpollAdd([ch EXCEPT !.listed = @ \/ ch.index = "kNew", !.index = "kAdded"])
    ELSE IF ch.events = {}
           THEN [EpollDel(ch) EXCEPT !.index = "kDeleted"]
           ELSE EpollMod(ch)

\* EPollPoller::removeChannel
RemoveChannel(ch) ==
  [IF ch.index = "kAdded" THEN EpollDel(ch) ELSE ch
     EXCEPT !.listed = FALSE, !.index = "kNew"]

EnableReading(ch) == UpdateChannel([ch EXCEPT !.events = @ \cup {"in"}])
EnableWriting(ch) == UpdateChannel([ch EXCEPT !.events = @ \cup {"out"}])
DisableWriting(ch) == UpdateChannel([ch EXCEPT !.events = @ \ {"out"}])
DisableAll(ch) == UpdateChannel([ch EXCEPT !.events = {}])

IsWriting(ch) == "out" \in ch.events

\* The poller's book-keeping agrees with the kernel's interest list.
Agrees(ch) ==
  /\ ~ch.fatal
  /\ ch.registered <=> ch.index = "kAdded"
  /\ ch.listed <=> ch.index # "kNew"
  /\ ch.registered => ch.mask = ch.events

\* handleEventWithGuard: the callbacks that the events of one poll call for,
\* in the order close, error, read, write.
Callbacks(revents) ==
  {cb \in {"close", "error", "read", "write"} :
     \/ cb = "close" /\ "hup" \in revents /\ "in" \notin revents
     \/ cb = "error" /\ "err" \in revents
     \/ cb = "read" /\ "in" \in revents
     \/ cb = "write" /\ "out" \in revents}
=============================================================================
