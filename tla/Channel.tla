------------------------------- MODULE Channel ------------------------------
(***************************************************************************)
(* reactor/Channel and its registration with reactor/EPoller, as operators   *)
(* on the record of one channel: the events it asks for and m_nIndex, its    *)
(* place in the poller.  The channel is in m_mpChannel unless it is NEW, and *)
(* epoll watches its descriptor exactly while it is ADDED.                   *)
(***************************************************************************)

ChannelType == [m_nEvents : SUBSET {"read", "write"}, m_nIndex : {"NEW", "ADDED", "DELETED"}]

NewChannel == [m_nEvents |-> {}, m_nIndex |-> "NEW"]

IsNoneEvent(ch) == ch.m_nEvents = {}
IsWriting(ch) == "write" \in ch.m_nEvents

\* EPoller::UpdateChannel: a channel that is not ADDED is added, even with no
\* event; one that is ADDED and wants no event any more is deleted.
UpdateChannel(ch) ==
    [ch EXCEPT !.m_nIndex = IF ch.m_nIndex = "ADDED" /\ IsNoneEvent(ch) THEN "DELETED" ELSE "ADDED"]

EnableReading(ch) == UpdateChannel([ch EXCEPT !.m_nEvents = @ \union {"read"}])
EnableWriting(ch) == UpdateChannel([ch EXCEPT !.m_nEvents = @ \union {"write"}])
DisableWriting(ch) == UpdateChannel([ch EXCEPT !.m_nEvents = @ \ {"write"}])
DisableAll(ch) == UpdateChannel([ch EXCEPT !.m_nEvents = {}])

\* EPoller::RemoveChannel and what it asserts.
CanRemove(ch) == IsNoneEvent(ch) /\ ch.m_nIndex # "NEW"
RemoveChannel(ch) == [ch EXCEPT !.m_nIndex = "NEW"]

\* epoll_wait may report the channel.
Watched(ch) == ch.m_nIndex = "ADDED"
=============================================================================
