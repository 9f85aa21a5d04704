--------------------------- MODULE MCConsumeProcess ---------------------------
(* Values for the constants of ConsumeProcess that a cfg cannot write.     *)
EXTENDS ConsumeProcessInv

NoUnreadable == {}

(* Of partition number 1 only the last message is JSON.                    *)
OneReadable == {m \in Messages : PartitionOf(m) = 1 /\ m.off < LogLen - 1}

(* The second message of every Kafka partition is not JSON.                *)
SecondUnreadable == {m \in Messages : m.off = 1}

=============================================================================
