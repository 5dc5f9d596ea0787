\* No key is in the environment: what is saved is all there is.
SPECIFICATION Spec
CONSTANTS
  Names = {"openai", "opencode-zen", "openrouter", "kimi-for-coding", "codex", "other"}
  Models = {"b"}
  Urls = {}
  EnvMode = "remote"
  EnvUrl = ""
  EnvProvider = "codex"
  EnvKeys = {}
  Fallback <- NoFallback
  MaxAttempts = 2
  Budget = 8
  RequestTimeout = 4
  RetryDelay = 1
  MaxRoute = 0
  MaxSaves = 1
INVARIANTS SavedIsServed
