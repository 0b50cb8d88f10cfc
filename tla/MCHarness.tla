------------------------------ MODULE MCHarness ------------------------------
(***************************************************************************)
(* The tester instantiated for TLC: three servers and one clerk.           *)
(***************************************************************************)
EXTENDS HarnessProperties

MCServer == 0..2
MCInstance == MCServer \X (0..MaxGen)
MCCaller == Clerk \cup MCInstance
MCEndname == MCCaller \X MCServer

\* The groups that make_partition makes of three servers when server 0 or server 1 leads, which are
\* also groups that the partitioner of the tests draws: partitions with different borders follow
\* one another.
MCGroup == {<<0>>, <<1, 2>>, <<1>>, <<0, 2>>}

=============================================================================
