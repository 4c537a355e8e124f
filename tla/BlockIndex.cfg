SPECIFICATION IndexSpec
CONSTANTS
    ptms = ptms
    opn = opn
    Audits = {ptms, opn}
    Uids = {u1, u2}
    MaxBlocks <- MCMaxBlocks
SYMMETRY Symmetry
INVARIANTS
    ExportComplete
    IndexInv
