----------------------------- MODULE MCSampler -----------------------------
(* Readings of a small machine for the sampler.                             *)
EXTENDS Sampler

Interface(i, b, n) == [interface |-> i, bytes |-> b, packets |-> n]
Disk(label, device, whole, b, n) == [label |-> label, device |-> device, whole |-> whole, bytes |-> b, ops |-> n]

\* A disk with one partition, and a loop device that does not count.
DisksAt(b, n) ==
    <<Disk(1, "sda", TRUE, b, n), Disk(2, "sda", FALSE, <<b[1], 0>>, <<n[1], 0>>),
      Disk(3, "loop", TRUE, <<7, 7>>, <<7, 7>>)>>

Plain ==
    [cores |-> <<20, 60>>, mem |-> 40, free |-> 8, swap |-> 10, load |-> 3,
     root |-> [path |-> "/", label |-> 4, used |-> 50, free |-> 9, inodes |-> 5],
     mounts |-> <<>>, disks |-> DisksAt(<<5, 6>>, <<2, 2>>), listed |-> 1, sensors |-> 0,
     interfaces |-> <<Interface(1, <<4, 8>>, <<2, 4>>)>>]

\* Three rounds: the sent bytes of an interface start again from zero and another
\* interface appears; the disks are not to be seen for a round; a file system appears,
\* at first with a label the server refuses; percentages are beyond their range and the
\* load is no number for a round.
Round(r) ==
    [Plain EXCEPT
       !.interfaces = <<Interface(1, <<6 * r, IF r = 1 THEN 9 ELSE r>>, <<2 * r, 4 * r>>)>>
                        \o (IF r = 3 THEN <<Interface(2, <<5, 6>>, <<3, 3>>)>> ELSE <<>>),
       !.disks = IF r = 2 THEN <<>> ELSE DisksAt(<<5 * r, 6 * r>>, <<2 * r, 3 * r>>),
       !.cores = <<120, 60>>, !.mem = 130, !.swap = 101, !.sensors = r - 1,
       !.load = IF r = 2 THEN NaN ELSE 3,
       !.mounts = IF r = 1 THEN <<>>
                  ELSE <<[path |-> "/mnt", label |-> IF r = 2 THEN Odd ELSE 6, used |-> 70, free |-> 1, inodes |-> 1]>>]

\* A user, shares with and without metrics, one of another space, the demo, and a
\* principal that may read nothing.
MCReaders ==
    {[kind |-> "user", tenant |-> "space", hosts |-> {}, fields |-> {}],
     [kind |-> "share", tenant |-> "space", hosts |-> {"own", "other"}, fields |-> {"metrics"}],
     [kind |-> "share", tenant |-> "space", hosts |-> {"own"}, fields |-> {"hostname", "status"}],
     [kind |-> "share", tenant |-> "elsewhere", hosts |-> {"own"}, fields |-> {"metrics"}],
     [kind |-> "demo", tenant |-> "elsewhere", hosts |-> {"other"}, fields |-> {"metrics"}],
     [kind |-> "share", tenant |-> "space", hosts |-> {}, fields |-> {"metrics"}]}

MCScenarios == {[r \in Rounds |-> Round(r)]}

=============================================================================
