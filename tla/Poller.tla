------------------------------- MODULE Poller -------------------------------
(***************************************************************************)
(* muduo::net::Poller and the registration half of muduo::net::Channel     *)
(* (net/Poller.cc, net/Channel.h): the vector handed to poll(2), the map   *)
(* from descriptors to channels, and the index each channel keeps into the *)
(* vector.  All of it runs on the loop thread.                             *)
(*                                                                         *)
(* Two Channel objects may carry the same descriptor, one after the other  *)
(* in the poller: Connector removes its channel before TcpConnection       *)
(* registers its own for the same socket, while the old object lives on    *)
(* until the loop runs Connector::resetChannel.                            *)
(***************************************************************************)
EXTENDS Integers, Sequences

CONSTANTS Channels,     \* Channel objects
          FdOf,         \* Channel::fd_, fixed by the constructor
          NULL          \* not a channel

ASSUME PollerAssumption ==
  /\ FdOf \in [Channels -> Nat]
  /\ NULL \notin Channels

VARIABLES
  events_,              \* Channel::events_, interest of each channel
  index_,               \* Channel::index_, -1 before registration
  pollfds_,             \* Poller::pollfds_
  channels_,            \* Poller::channels_, NULL where the map has no entry
  removed,              \* channels given up by their owner, not destroyed yet
  activeChannels_       \* EventLoop::activeChannels_, still to be dispatched

pollerVars == <<events_, index_, pollfds_, channels_, removed, activeChannels_>>

Fds == {FdOf[c] : c \in Channels}

(* kReadEvent and kWriteEvent; kNoneEvent is the empty set. *)
Events == {"read", "write"}

(* The slot of an uninteresting descriptor holds -fd-1, which poll(2)      *)
(* skips and from which the descriptor can be recovered.                   *)
Ignored(fd) == -fd - 1
Decode(x) == IF x < 0 THEN -x - 1 ELSE x

Registered(c) == channels_[FdOf[c]] = c

(* The slot of a registered channel: index_ counts from 0. *)
Slot(c) == pollfds_[index_[c] + 1]

PollerInit ==
  /\ events_ = [c \in Channels |-> {}]
  /\ index_ = [c \in Channels |-> -1]
  /\ pollfds_ = <<>>
  /\ channels_ = [fd \in Fds |-> NULL]
  /\ removed = {}
  /\ activeChannels_ = {}

-----------------------------------------------------------------------------
(* Mutant of updateChannel: a channel without interest is not hidden. *)
UpdateChannelNeverHides(c, ev) ==
  /\ events_' = [events_ EXCEPT ![c] = ev]
  /\ IF index_[c] < 0
     THEN /\ pollfds_' = Append(pollfds_, [fd |-> FdOf[c], events |-> ev])
          /\ index_' = [index_ EXCEPT ![c] = Len(pollfds_)]
          /\ channels_' = [channels_ EXCEPT ![FdOf[c]] = c]
     ELSE /\ pollfds_' = [pollfds_ EXCEPT ![index_[c] + 1].events = ev]
          /\ UNCHANGED <<index_, channels_>>
  /\ UNCHANGED <<removed, activeChannels_>>

(* Poller::updateChannel, after Channel has set its interest to ev: a new  *)
(* channel is appended; a known one has its slot's events replaced, and    *)
(* its descriptor hidden when ev is empty.                                 *)
UpdateChannel(c, ev) ==
  /\ events_' = [events_ EXCEPT ![c] = ev]
  /\ IF index_[c] < 0
     THEN /\ pollfds_' = Append(pollfds_, [fd |-> FdOf[c], events |-> ev])
          /\ index_' = [index_ EXCEPT ![c] = Len(pollfds_)]
          /\ channels_' = [channels_ EXCEPT ![FdOf[c]] = c]
     ELSE /\ pollfds_' =
               [pollfds_ EXCEPT ![index_[c] + 1] =
                  [fd |-> IF ev = {} THEN Ignored(FdOf[c]) ELSE @.fd,
                   events |-> ev]]
          /\ UNCHANGED <<index_, channels_>>
  /\ UNCHANGED <<removed, activeChannels_>>

(* A client may enable events on a channel it has not removed; when the    *)
(* channel is new, its descriptor is not in the poller, because the OS     *)
(* gives it to one owner at a time and owners remove before they hand over *)
(* or close.                                                               *)
MayEnable(c) ==
  /\ c \notin removed
  /\ index_[c] < 0 => channels_[FdOf[c]] = NULL

EnableReading(c) ==
  /\ MayEnable(c)
  /\ UpdateChannel(c, events_[c] \cup {"read"})

EnableWriting(c) ==
  /\ MayEnable(c)
  /\ UpdateChannel(c, events_[c] \cup {"write"})

DisableWriting(c) ==
  /\ Registered(c)
  /\ UpdateChannel(c, events_[c] \ {"write"})

DisableAll(c) ==
  /\ Registered(c)
  /\ UpdateChannel(c, {})

(* Which index the channel of the moved slot is told; a mutant leaves it   *)
(* its old one.                                                            *)
MovedIndexStale(c) == Len(pollfds_) - 1
MovedIndex(c) == index_[c]

(* What a channel's owner sees to before it removes the channel; Poller    *)
(* asserts the first two.                                                  *)
Removable(c) ==
  /\ Registered(c)
  /\ events_[c] = {}
  /\ c \notin activeChannels_

(* Poller::removeChannel: the map's entry is erased, and the last slot     *)
(* takes the place of the removed one.  Owners call it right after         *)
(* disableAll (TcpConnection::connectDestroyed, Connector's                *)
(* removeAndResetChannel), in the channel's own callback or in a queued    *)
(* functor, so never while the channel waits in activeChannels_.           *)
RemoveChannel(c) ==
  LET idx   == index_[c]
      last  == pollfds_[Len(pollfds_)]
      moved == channels_[Decode(last.fd)]
  IN
  /\ Removable(c)
  /\ channels_' = [channels_ EXCEPT ![FdOf[c]] = NULL]
  /\ IF idx = Len(pollfds_) - 1
     THEN /\ pollfds_' = SubSeq(pollfds_, 1, Len(pollfds_) - 1)
          /\ UNCHANGED index_
     ELSE /\ pollfds_' = [i \in 1 .. Len(pollfds_) - 1 |->
                            IF i = idx + 1 THEN last ELSE pollfds_[i]]
          /\ index_' = [index_ EXCEPT ![moved] = MovedIndex(c)]
  /\ removed' = removed \cup {c}
  /\ UNCHANGED <<events_, activeChannels_>>

(* The owner destroys the channel and later constructs another one.        *)
Reconstruct(c) ==
  /\ c \in removed
  /\ events_' = [events_ EXCEPT ![c] = {}]
  /\ index_' = [index_ EXCEPT ![c] = -1]
  /\ removed' = removed \ {c}
  /\ UNCHANGED <<pollfds_, channels_, activeChannels_>>

(* Poller::poll and fillActiveChannels: poll(2) may report any descriptor  *)
(* it was not told to skip (POLLERR and POLLHUP need no interest).         *)
Poll(ready) ==
  /\ activeChannels_ = {}
  /\ ready # {}
  /\ \A i \in ready : pollfds_[i].fd >= 0
  /\ activeChannels_' = {channels_[pollfds_[i].fd] : i \in ready}
  /\ UNCHANGED <<events_, index_, pollfds_, channels_, removed>>

(* EventLoop::loop takes the next active channel and calls handleEvent;    *)
(* what the callbacks do to channels are the actions above.                *)
Dispatch(c) ==
  /\ c \in activeChannels_
  /\ activeChannels_' = activeChannels_ \ {c}
  /\ UNCHANGED <<events_, index_, pollfds_, channels_, removed>>

PollerNext ==
  \/ \E c \in Channels :
       \/ EnableReading(c) \/ EnableWriting(c)
       \/ DisableWriting(c) \/ DisableAll(c)
       \/ RemoveChannel(c) \/ Reconstruct(c)
  \/ \E ready \in SUBSET (1 .. Len(pollfds_)) : Poll(ready)
  \/ \E c \in activeChannels_ : Dispatch(c)

PollerSpec == PollerInit /\ [][PollerNext]_pollerVars

-----------------------------------------------------------------------------
(* Properties.                                                             *)

PollFd == [fd : Int, events : SUBSET Events]

(* Type correctness of updateChannel's and removeChannel's containers.     *)
PollerTypeOK ==
  /\ events_ \in [Channels -> SUBSET Events]
  /\ index_ \in [Channels -> Nat \cup {-1}]
  /\ pollfds_ \in Seq(PollFd)
  /\ channels_ \in [Fds -> Channels \cup {NULL}]
  /\ removed \in SUBSET Channels
  /\ activeChannels_ \in SUBSET Channels

(* The vector, the map and the indices kept in the channels agree after    *)
(* any sequence of updates, swap-removals and reuses of a descriptor:      *)
(* every mapped channel finds its own slot, and every slot belongs to the  *)
(* mapped channel that points back at it (the assertions of updateChannel, *)
(* removeChannel and fillActiveChannels).                                  *)
IndexConsistent ==
  /\ \A c \in Channels :
       Registered(c) =>
         /\ index_[c] \in 0 .. Len(pollfds_) - 1
         /\ Decode(Slot(c).fd) = FdOf[c]
         /\ Slot(c).events = events_[c]
  /\ \A i \in 1 .. Len(pollfds_) :
       /\ Decode(pollfds_[i].fd) \in Fds
       /\ channels_[Decode(pollfds_[i].fd)] \in Channels
       /\ index_[channels_[Decode(pollfds_[i].fd)]] = i - 1

(* A registered channel without interest is hidden from poll(2), so that   *)
(* no callback reaches an object its owner has closed (updateChannel).     *)
NoInterestIsHidden ==
  \A c \in Channels :
    Registered(c) /\ events_[c] = {} => Slot(c).fd = Ignored(FdOf[c])
=============================================================================
