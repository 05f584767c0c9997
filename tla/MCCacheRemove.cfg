SPECIFICATION Spec
CONSTANTS
    Links = {x, y, z}
    NoLink = NoLink
    None = None
SYMMETRY LinkSymmetry
INVARIANTS MapsAgree NoReentry
PROPERTIES Implements
