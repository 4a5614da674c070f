SPECIFICATION Spec
INVARIANT S1AddrIsNameTableCell
INVARIANT S2PatternAddrIsTileRow
INVARIANT MakeColorNibbles
