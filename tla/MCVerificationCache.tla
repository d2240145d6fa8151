------------------------ MODULE MCVerificationCache ------------------------
(* Two processes, two correct messages, one that cannot be verified, one with the digest
   of a correct message but another element type that makes the verification fail, and a
   type (no digest); the specifications make the processes share some declarations.      *)
EXTENDS VerificationCache

CONSTANTS p1, p2, message1, message2, wrong, retyped, type, malformed, hash1, hash2, hash3, hash4

MCProcess == {p1, p2}
MCDeclarations == {message1, message2, wrong, retyped, type, malformed}
MCDigest == [d \in MCDeclarations |-> CASE d \in {message1, retyped} -> hash1
                                        [] d = message2 -> hash2
                                        [] d = wrong -> hash3
                                        [] d = malformed -> hash4
                                        [] OTHER -> NoDigest]
MCSpecs == {<<type, message1, message2>>, <<message2, wrong>>, <<malformed, message1>>, <<retyped>>}
=============================================================================
