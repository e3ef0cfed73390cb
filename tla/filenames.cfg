\* All names of up to five characters against small limits.
SPECIFICATION Spec

CONSTANTS
    a = a  Dot = Dot  Colon = Colon  Sep = Sep  percent = percent
    QuoteMark = QuoteMark  eacute = eacute
    Broken = Broken  None = None
    Letter = {a}  Underscore = a
    Reserved = {percent}  Accented = {eacute}
    FallbackName <- IdName
    MaxEncoded = 9
    MaxExtension = 4
    MaxLength = 5

INVARIANT FitsMetadata
INVARIANT OnlyShortened
INVARIANT UploadAgainKeepsName
INVARIANT HeaderReadable
