------------------------------- MODULE Crypto -------------------------------
(***************************************************************************)
(* crypto.c with perfect primitives: Argon2id and HKDF are injective, a    *)
(* GCM header opens only under the key it was sealed with, and a sector    *)
(* gives its plain text back only under its key and block number.  Keys    *)
(* are the terms that derive them, so a key that came from a failed        *)
(* derivation is a value like any other, as it is in the code.             *)
(***************************************************************************)
EXTENDS Naturals

\* A key buffer before anything is derived into it.
ZeroKey == [kind |-> "zero"]

\* ok tells whether Argon2id had the memory it needs; a failed derivation
\* leaves the buffer zero.
derive_master_key(pw, salt, ok) ==
  IF ok THEN [kind |-> "master", pw |-> pw, salt |-> salt] ELSE ZeroKey

derive_header_key(master) == [kind |-> "hkdf", master |-> master]

\* The passphrase's key for a header with this salt.
HeaderKey(pw, salt, ok) == derive_header_key(derive_master_key(pw, salt, ok))

MasterKeys(Pw) ==
  {ZeroKey} \union [kind : {"master"}, pw : Pw, salt : Nat]
HeaderKeys(Pw) == [kind : {"hkdf"}, master : MasterKeys(Pw)]

\* A header on disk: its salt, and a payload of size and volume key sealed
\* under hkey.
encrypt_header(salt, size, key, hkey) ==
  [kind |-> "header", salt |-> salt, size |-> size, key |-> key, hkey |-> hkey]

\* The tag is right and the payload begins with the magic number.
decrypt_header(header, hkey) == header.hkey = hkey

\* Block n of the volume with this key; data tells who wrote it.
crypt_sector(data, n, key) ==
  [kind |-> "block", key |-> key, n |-> n, data |-> data]

\* The sector decrypts as block n of the volume with this key.
Decrypts(sector, n, key) ==
  sector.kind = "block" /\ sector.key = key /\ sector.n = n
=============================================================================
