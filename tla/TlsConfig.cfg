\* Two tasks that load and reload, two rotations of the files and a connection:
\* two loads can overlap, each can meet every half-finished rotation, and a
\* handshake can begin before, between and after them.
SPECIFICATION Spec
CONSTANTS
    Reloaders = {r1, r2}
    Sessions = {s1}
    MaxRotation = 2
INVARIANTS
    NoTornPair
PROPERTY
    HandshakeSeesReload
