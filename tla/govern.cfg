\* Two people, two tickets, two aliases, a restart.
SPECIFICATION Spec

CONSTANTS
    old = old
    new = new
    Actors = {ann, bob}
    Approvers = {ann, bob}
    NoOne = NoOne
    TicketIds = {k1, k2}
    NoTicket = NoTicket
    Aliases = {old, new}
    Drafts <- MCDrafts
    Files <- MCFiles
    Canaried = {old}
    MaxVersions = 2

SYMMETRY Symmetry

INVARIANT TypeOK
INVARIANT FourEyes
