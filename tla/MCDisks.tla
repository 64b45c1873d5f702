-------------------------------- MODULE MCDisks --------------------------------
(* A small instance of Disks: two disks of a host, two chunkservers. *)
EXTENDS Disks

Entry(hosts, exclude, device, mount, service) ==
  [hosts |-> hosts, exclude |-> exclude, device |-> device, mount |-> mount,
   service |-> service, percent |-> 90]

TwoServers == {[id |-> 1, host |-> 1, dataDir |-> 21], [id |-> 2, host |-> 1, dataDir |-> 22]}

\* Two disks; the second moves, and the first leaves; the service mounts the
\* second; the same device twice, which is refused.
DiskFiles ==
  << << Entry(<<1, 2>>, {2}, 11, 21, FALSE), Entry(<<1>>, {}, 12, 22, FALSE) >>,
     << Entry(<<1>>, {}, 12, 23, FALSE) >>,
     << Entry(<<1>>, {}, 11, 21, FALSE), Entry(<<1>>, {}, 12, 22, TRUE) >>,
     << Entry(<<1>>, {}, 11, 21, FALSE), Entry(<<1>>, {}, 11, 22, FALSE) >> >>

OneFormat == [hosts |-> {1}, disks |-> {<<11, 21>>}]
=============================================================================
