\* Options that pass the validation, among them references of three bytes.
SPECIFICATION CodingSpec
INVARIANTS ValidOptionsEncode
