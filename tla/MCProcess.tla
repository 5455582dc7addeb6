----------------------------- MODULE MCProcess ------------------------------
(* Instances of Process for TLC: one configuration, which names an         *)
(* instance or leaves it to the metadata service, here of version 1.       *)
EXTENDS Process

MCTarget == [scheme |-> "https", path |-> <<"a", "">>, extras |-> FALSE]
MCNamed == {[instance |-> "host", resources |-> {"node"}, target |-> MCTarget]}
MCOnEc2 == {[instance |-> "ec2", resources |-> {"node"}, target |-> MCTarget]}
MCServices == {{"v1"}}
=============================================================================
