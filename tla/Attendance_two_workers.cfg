SPECIFICATION Spec
CONSTANTS
    None = None
    Workers = {w1, w2}
    Users = {alice, bob}
    Events = {e1}
    MaxRows = 4
INVARIANTS TypeOK FollowersAgree OneParticipation NoParticipantWithoutEvent
PROPERTY CanceledNotJoined
SYMMETRY Symmetry
