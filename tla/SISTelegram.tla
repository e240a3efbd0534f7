----------------------------- MODULE SISTelegram -----------------------------
(***************************************************************************)
(* The bytes of a SIS telegram (source/sis.pas): an eight byte header with *)
(* the checksum and the length of what follows, then the user data.        *)
(***************************************************************************)
EXTENDS ByteSum, SequencesExt

STX == 2                  \* "SIS header pre-amble"
HeaderLength == 8
UserHeaderLength == 3     \* status, control, unit address of a reaction

DataLen(header) == header[3]
Service(header) == header[6]

\* Mutant: the checksum is not reduced to a byte.
TelegramUnmasked(control, service, sender, recv, user) ==
  LET header(checksum) ==
        <<STX, checksum, Len(user), Len(user), control, service, sender, recv>>
  IN header(256 - Total(header(0) \o user)) \o user

\* A telegram with both copies of its length, and the checksum that makes the
\* sum of all its bytes zero.
Telegram(control, service, sender, recv, user) ==
  LET header(checksum) ==
        <<STX, checksum, Len(user), Len(user), control, service, sender, recv>>
  IN header((256 - Total(header(0) \o user)) % 256) \o user

\* Bit 2 of the control byte of the user data.
LastTransmission(control) == (control \div 4) % 2 = 1
=============================================================================
