----------------------------- MODULE MCMarshal -----------------------------
EXTENDS Marshal

\* numbers at both ends of their range, paths of each shape, no, one and two
\* attributes, one with an empty value
At(s, ns) == [s |-> s, ns |-> ns]
Big == Base^W64 - 1
MCInfos == {
  [u64 |-> <<0, 1, 2, 3>>, u32 |-> <<4, 5, 6, 7>>,
   time |-> <<At(0, 0), At(0, 9), At(1, 0)>>, path |-> <<>>, xattr |-> <<>>],
  [u64 |-> <<Big, 0, Base, Big - 1>>, u32 |-> <<255, 16, 15, 1>>,
   time |-> <<At(Big \div Second, Big % Second), At(1, 2), At(6000, 0)>>,
   path |-> <<3, Slash, 4, 5, Slash>>, xattr |-> <<7>> :> <<8, 9>>],
  [u64 |-> <<1, Base^3, 0, 0>>, u32 |-> <<0, 254, 0, 2>>,
   time |-> <<At(0, 1), At(2, 3), At(4, 5)>>, path |-> <<Slash>>,
   xattr |-> <<7>> :> <<>> @@ <<7, 1>> :> <<Slash>>] }
=============================================================================
