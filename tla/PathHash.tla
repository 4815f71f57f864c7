------------------------------ MODULE PathHash ------------------------------
(***************************************************************************)
(* The descriptor of a path: the last steps of hashmap_hash_s32            *)
(* (src/src/hashmap.c).  What the checksum and the shifts before them make *)
(* of the path is any u32.                                                 *)
(*                                                                         *)
(* atfscreat and atfsopen return a descriptor, or INODE_FAILED, or EEXIST, *)
(* which is a positive number: a caller can tell it from a descriptor only *)
(* if no path has it.                                                      *)
(***************************************************************************)
EXTENDS Integers

U32 == 4294967296
S32Max == 2147483647
HASHMAP_MASK == 2147483647             \* (1UL << 31) - 1

EEXIST == 17
INODE_FAILED == -1

Factor == 6364247124

(* The factor is a long, so the product is one of 64 bits, which it fits;  *)
(* it is cut down to a u32 and masked.                                     *)
Descriptor(key) == (((key \div 8) * Factor) % U32) % (HASHMAP_MASK + 1)
=============================================================================
