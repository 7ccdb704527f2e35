\* Four nodes with at most two links, and up to two paths. A digit has two bits
\* and a number five: the third digit may be too large, the fourth has no
\* place value, as the seventh and the eighth of the program.
CONSTANTS
    Nodes <- MCNodes
    Names = {u, v}
    MaxArgs = 2
    MaxLinks = 2
    Nowhere = Nowhere
    Base = 4
    Width = 5
    Rooms <- MCRooms
    Typed <- MCTyped
SPECIFICATION Spec
INVARIANTS TypeOK ListedOnce PublicPathsDiffer CrashNeedsLink
INVARIANTS CodeRoundTrip TypedOrTooLong
SYMMETRY Symmetry
CHECK_DEADLOCK FALSE
