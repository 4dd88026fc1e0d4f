SPECIFICATION Spec
CONSTANTS
    Speakers = {s1, s2}
    Nobody = Nobody
    Formats = {"48k24", "44k16"}
    ConfigFormat = "48k24"
INVARIANT EarlySpeakersMatch
