-------------------------- MODULE MC_ClientVolume --------------------------
(* Instantiates ClientVolume for TLC.  A shard's store_ips string "a,b"   *)
(* has length 3 and parses to two IPs; "a" has length 1.                  *)
EXTENDS ClientVolume, ClientAlgorithms, TLC

CONSTANTS i1, i2, i3

MC_Iocbs == {i1, i2}
MC_ThreeIocbs == {i1, i2, i3}
MC_TwoIps == <<"a", "b">>
MC_OneIp  == <<"a">>

\* ClientAlgorithms' checks are constant formulas over all small inputs.
\* Each is checked in the states before the first submission (nsub = 0),
\* where TLC reports a failure as a violated invariant; checking it in the
\* other states would repeat the same evaluation.

\* The EVT_SEND_HEARTBEAT sweep's rotating cursor reaches every healthy
\* connection within RotationBound sweeps (ClientAlgorithms!SweepRotates).
HeartbeatRotation == nsub = 0 => SweepRotates

\* The sweep evicts exactly the connections that stop answering, within a
\* bounded number of sweeps (ClientAlgorithms!SilentConnEvicted).
HeartbeatEviction == nsub = 0 => SilentConnEvicted

\* iov_to_buf and iov_from_buf copy exactly the flat prefix of the iovec
\* array (ClientAlgorithms!IovCopiesMatchFlatten).
IovCopy == nsub = 0 => IovCopiesMatchFlatten
=============================================================================
