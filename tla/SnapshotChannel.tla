---------------------------- MODULE SnapshotChannel ----------------------------
(***************************************************************************)
(* What the Agent's local channel promises to the Desktop, whatever pipes, *)
(* frames, threads and timers are between them: every snapshot it delivers *)
(* was in the Agent's store, is not older than one delivered before, and   *)
(* arrives in a batch in the order in which the Agent took it.             *)
(***************************************************************************)
EXTENDS Naturals, Sequences

CONSTANTS
  MaxEpoch,    \* bound: how often the Agent process is restarted
  MaxVersion   \* bound: how often one Agent process writes its store

VARIABLES
  published,   \* the snapshot in the store: which process, its how-manyth
  shown,       \* the last snapshot delivered to the Desktop
  batch        \* what the last turn of the Desktop's event loop delivered

channelVars == <<published, shown, batch>>

\* Version 0 is the empty store of a process that has measured nothing yet.
Snapshots == (0 .. MaxEpoch) \X (0 .. MaxVersion)
NotOlder(s, t) == s[1] < t[1] \/ (s[1] = t[1] /\ s[2] <= t[2])
Between(s, t) == {u \in Snapshots : NotOlder(s, u) /\ NotOlder(u, t)}
InOrder(q) == \A i \in 1 .. Len(q) - 1 : NotOlder(q[i], q[i + 1])

ChannelInit == published = <<0, 0>> /\ shown = <<0, 0>> /\ batch = <<>>

Publish ==
  /\ published' = <<published[1], published[2] + 1>>
  /\ published' \in Snapshots
  /\ UNCHANGED <<shown, batch>>

\* The Agent dies, and its store with it; the next process starts empty.
Restart ==
  /\ published' = <<published[1] + 1, 0>>
  /\ published' \in Snapshots
  /\ UNCHANGED shown /\ batch' \in {batch, <<>>}

Deliver ==
  /\ batch' # <<>>
  /\ \A i \in DOMAIN batch' : batch'[i] \in Between(shown, published)
  /\ InOrder(batch')
  /\ shown' = batch'[Len(batch')]
  /\ UNCHANGED published

DeliverNothing == batch' = <<>> /\ UNCHANGED <<published, shown>>

ChannelNext == Publish \/ Restart \/ Deliver \/ DeliverNothing

ChannelSpec == ChannelInit /\ [][ChannelNext]_channelVars
=============================================================================
