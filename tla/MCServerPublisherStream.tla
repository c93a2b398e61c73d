------------------------ MODULE MCServerPublisherStream -----------------------
(* Two publishing threads with two items each.                             *)
EXTENDS ServerPublisherStream

TwoEach == [x \in Publishers |-> 2]

=============================================================================
