SPECIFICATION Spec
CONSTANTS
    Addresses <- MCAddresses
INVARIANTS
    ReadInPlace
    ReadsAreDue
