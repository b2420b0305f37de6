---------------------------- MODULE MCPublishFlow ----------------------------
(* Instances of PublishFlow for TLC.  Publishers are interchangeable.        *)
EXTENDS PublishFlow, TLC

PublisherSymmetry == Permutations(Publishers)
==============================================================================
