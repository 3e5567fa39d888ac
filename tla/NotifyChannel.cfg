\* Three senders: a clone, a drop of one of several and the drop of the last
\* can overlap with a receiver that is entering, parked or woken.
SPECIFICATION Spec
CONSTANT Senders = {s1, s2, s3}
INVARIANTS
    TypeOK
    WakeupsAreExact
PROPERTIES
    ContractSpec
